---------------------------- MODULE Spec2Model ----------------------------
(***************************************************************************)
(* A model of the N2S estimator's engine: configuration loading, scenario   *)
(* input construction, the estimate() pipeline (base stage allocation,      *)
(* role expansion and pricing, the add-on packages), the package summaries  *)
(* and the configuration validator.                                         *)
(*                                                                          *)
(* Numbers.  The program computes with Python floats.  The model computes   *)
(* with rationals <<n, d>> in lowest terms and rounds the result of every   *)
(* arithmetic operation with Fl.  The variable prec selects the arithmetic: *)
(*   prec = 0  real arithmetic (Fl is the identity): the abstraction under  *)
(*             which tolerance-based statements are checked, the rounding   *)
(*             error of a double being many orders below the tolerances;    *)
(*   prec > 0  binary floating point with a significand of prec bits and    *)
(*             round-to-nearest-even, i.e. IEEE-754 arithmetic at a reduced *)
(*             width, under which statements of exact equality are checked. *)
(* A Python dict is a sequence of <<key, value>> pairs in insertion order;  *)
(* None is the empty tuple <<>>.                                            *)
(***************************************************************************)
EXTENDS Integers, Sequences, FiniteSets, TLC

VARIABLES
    prec,               \* arithmetic of the run (see above)
    workbook,           \* name of the workbook the estimator was constructed from
    load_status,        \* "" | "ok" | the exception N2SEstimator.__init__ raised
    config,             \* N2SEstimator.config (None unless the load succeeded)
    rate_cache,         \* PricingEngine._rate_cache
    mix_cache,          \* PricingEngine._delivery_mix_cache
    baseline_role_mix,  \* ConfigurationValidator._baseline_role_mix
    passed,             \* names of the keyword arguments of the last
                        \* EstimationInputs(...) call
    inputs,             \* the EstimationInputs object (None if it was rejected)
    input_status,       \* "" | "ok" | the exception EstimationInputs(...) raised
    results,            \* Optional: the EstimationResults of the last estimate()
    summaries,          \* Optional: the last get_package_summaries() result
    warnings,           \* Optional: the last get_validation_warnings() result
    pricing_log,        \* history: the pricing override calls made on the
                        \* estimator since its construction, in order
    derived,            \* Optional: the last get_role_summary(),
                        \* get_stage_summary() or get_tier_breakdown() result
    earlier_estimates   \* history: the number of earlier requests for which
                        \* this estimator has returned an estimate

vars == <<prec, workbook, load_status, config, rate_cache, mix_cache,
          baseline_role_mix, passed, inputs, input_status, results, summaries,
          warnings, pricing_log, derived, earlier_estimates>>

None == <<>>

(***************************************************************************)
(* Bounds of the model.                                                     *)
(***************************************************************************)
Prec == 8        \* significand bits of the reduced-width floating point
MaxCount == 2    \* largest small item count tried for an add-on package
MaxPricingCalls == 2    \* pricing override calls made on one estimator
MaxEarlierEstimates == 1    \* earlier estimated requests counted on one estimator

(***************************************************************************)
(* Rational arithmetic.                                                     *)
(***************************************************************************)
Abs(n) == IF n < 0 THEN -n ELSE n

RECURSIVE GCD(_, _)
GCD(a, b) == IF b = 0 THEN a ELSE GCD(b, a % b)

\* n/d in lowest terms, g being the greatest common divisor of n and d
Reduced(n, d, g) == <<n \div g, d \div g>>

Q(n, d) == Reduced(n, d, GCD(Abs(n), d))

Num(n) == <<n, 1>>
Pct(n) == Q(n, 100)
Mil(n) == Q(n, 1000)
Zero == <<0, 1>>
One == <<1, 1>>

QNeg(a) == <<-a[1], a[2]>>

\* a * b, g1 and g2 being the common divisors of the crossed terms
CrossReduced(a, b, g1, g2) ==
    <<(a[1] \div g1) * (b[1] \div g2), (a[2] \div g2) * (b[2] \div g1)>>

QMul(a, b) == CrossReduced(a, b, GCD(Abs(a[1]), b[2]), GCD(Abs(b[1]), a[2]))

QInv(a) == IF a[1] > 0 THEN <<a[2], a[1]>> ELSE <<-a[2], -a[1]>>

QDiv(a, b) == QMul(a, QInv(b))

\* a + b over the least common denominator, g dividing both denominators
OverCommon(a, b, g) ==
    Q(a[1] * (b[2] \div g) + b[1] * (a[2] \div g), a[2] * (b[2] \div g))

QAdd(a, b) == OverCommon(a, b, GCD(a[2], b[2]))

QSub(a, b) == QAdd(a, QNeg(b))

LtOverCommon(a, b, g) == a[1] * (b[2] \div g) < b[1] * (a[2] \div g)

Lt(a, b) == LtOverCommon(a, b, GCD(a[2], b[2]))

Le(a, b) == ~Lt(b, a)
Gt(a, b) == Lt(b, a)
Ge(a, b) == ~Lt(a, b)
QAbs(a) == <<Abs(a[1]), a[2]>>

(***************************************************************************)
(* Floating point: rounding a real to p significant bits, ties to even.     *)
(***************************************************************************)
\* the integer nearest to q + r/d (0 <= r < d), a tie going to the even one
Nearest(q, r, d) ==
    IF 2 * r < d THEN q
    ELSE IF 2 * r > d THEN q + 1
    ELSE IF q % 2 = 0 THEN q ELSE q + 1

RoundHalfEven(n, d) == Nearest(n \div d, n % d, d)

\* how often n/d must be halved to fall below hi, or doubled to reach lo
RECURSIVE Halvings(_, _, _)
Halvings(n, d, hi) == IF n \div hi >= d THEN 1 + Halvings(n, 2 * d, hi) ELSE 0

RECURSIVE Doublings(_, _, _)
Doublings(n, d, lo) == IF n \div lo < d THEN 1 + Doublings(2 * n, d, lo) ELSE 0

\* n/d > 0 scaled by 2^up / 2^down (one of the two is 0), rounded to an
\* integer and scaled back
RoundScaled(n, d, down, up) ==
    Q(RoundHalfEven(n * 2^up, d * 2^down) * 2^down, 2^up)

\* n/d > 0 rounded to a p-bit significand
RoundSig(n, d, p) ==
    RoundScaled(n, d, Halvings(n, d, 2^p), Doublings(n, d, 2^(p - 1)))

\* the magnitude r with the sign of n
WithSignOf(n, r) == IF n < 0 THEN QNeg(r) ELSE r

Fl(x) ==
    IF prec = 0 \/ x[1] = 0 THEN x
    ELSE WithSignOf(x[1], RoundSig(Abs(x[1]), x[2], prec))

FAdd(a, b) == Fl(QAdd(a, b))
FSub(a, b) == Fl(QSub(a, b))
FMul(a, b) == Fl(QMul(a, b))
FDiv(a, b) == Fl(QDiv(a, b))
FMax(a, b) == IF Gt(b, a) THEN b ELSE a

\* Python's sum(): 0 + x1 + x2 + ... from the left
RECURSIVE SumTo(_, _)
SumTo(xs, k) == IF k = 0 THEN Zero ELSE FAdd(SumTo(xs, k - 1), xs[k])
FSum(xs) == SumTo(xs, Len(xs))

(***************************************************************************)
(* Python dicts as sequences of <<key, value>> pairs.                       *)
(***************************************************************************)
DHas(d, k) == \E i \in DOMAIN d : d[i][1] = k
DIdx(d, k) == CHOOSE i \in DOMAIN d : d[i][1] = k
DGet(d, k, dflt) == IF DHas(d, k) THEN d[DIdx(d, k)][2] ELSE dflt
DSet(d, k, v) ==
    IF DHas(d, k) THEN [d EXCEPT ![DIdx(d, k)] = <<k, v>>]
    ELSE Append(d, <<k, v>>)
DValues(d) == [i \in DOMAIN d |-> d[i][2]]
DKeys(d) == [i \in DOMAIN d |-> d[i][1]]

RECURSIVE SelectSeqIdx(_, _, _)
\* the subsequence of xs whose elements pass the test, up to index k;
\* keep[i] is the outcome of the test on xs[i]
SelectSeqIdx(xs, keep, k) ==
    IF k = 0 THEN <<>>
    ELSE IF keep[k] THEN Append(SelectSeqIdx(xs, keep, k - 1), xs[k])
    ELSE SelectSeqIdx(xs, keep, k - 1)
Filter(xs, keep) == SelectSeqIdx(xs, keep, Len(xs))


(***************************************************************************)
(* Rows of the workbook sheets and of the configuration tables.             *)
(***************************************************************************)
NoRole == "<global>"    \* the Role cell of the global Delivery Mix row (None)

SW(phase, stage, w) == [phase |-> phase, stage |-> stage, weight |-> w]
SP(stage, p) == [stage |-> stage, default_pct |-> p]
Act(stage, activity, w, pre) ==
    [stage |-> stage, activity |-> activity, weight |-> w, is_presales |-> pre]
RM(stage, role, p) == [stage |-> stage, role |-> role, pct |-> p]
Rate(role, locale, on, off, pa) ==
    [role |-> role, locale |-> locale, onshore |-> Num(on),
     offshore |-> Num(off), partner |-> Num(pa)]
DM(role, on, off, pa) ==
    [role |-> role, onshore_pct |-> on, offshore_pct |-> off, partner_pct |-> pa]
Tier(name, unit, dist, scale) ==
    [name |-> name, unit_hours |-> unit, role_distribution |-> dist,
     scale_by_size |-> scale]
Pkg(name, tiers) == [name |-> name, tiers |-> tiers]
Toggle(role, banner, colleague, m) ==
    [role |-> role, banner_enabled |-> banner, colleague_enabled |-> colleague,
     multiplier |-> m]

\* the Role Mix rows of one stage
StageMix(stage, mix) == [i \in DOMAIN mix |-> RM(stage, mix[i][1], Pct(mix[i][2]))]
\* a tier's role distribution from percentages
Dist(mix) == [i \in DOMAIN mix |-> <<mix[i][1], Pct(mix[i][2])>>]

PM == "Project Manager"
SA == "Solution Architect"
FC == "Functional Consultant"
QA == "QA Engineer"
IE == "Integration Engineer"
TA == "Technical Architect"
IL == "Integration Lead"
RC == "Reporting Consultant"
EE == "Extensibility Engineer"
DWS == "DegreeWorks Scribe"

(***************************************************************************)
(* The workbook that create_workbook() writes (the Rates (Locales) sheet    *)
(* restricted to the locales US and UK).                                    *)
(***************************************************************************)
DefaultWorkbook ==
  [ baseline_hours |-> Num(6700),
    stage_weights |-> <<
        SW("Discovery", "Start", Mil(25)), SW("Discovery", "Prepare", Mil(25)),
        SW("Build", "Sprint 0", Mil(60)), SW("Build", "Plan", Mil(100)),
        SW("Build", "Configure", Mil(340)), SW("Build", "Test", Mil(200)),
        SW("Build", "Deploy", Mil(100)), SW("Optimize", "Go-Live", Mil(60)),
        SW("Optimize", "Post Go-Live (Care)", Mil(90)) >>,
    stages_presales |-> <<
        SP("Start", Pct(60)), SP("Prepare", Pct(30)), SP("Sprint 0", Zero),
        SP("Plan", Zero), SP("Configure", Zero), SP("Test", Zero),
        SP("Deploy", Zero), SP("Go-Live", Zero),
        SP("Post Go-Live (Care)", Zero) >>,
    activities |-> <<
        Act("Start", "Discovery Planning", Pct(60), TRUE),
        Act("Start", "Initial Assessment", Pct(40), FALSE),
        Act("Prepare", "Requirements Gathering", Pct(30), TRUE),
        Act("Prepare", "Solution Design", Pct(70), FALSE) >>,
    role_mix |->
        StageMix("Start", << <<PM, 20>>, <<SA, 30>>, <<TA, 5>>, <<FC, 35>>, <<QA, 10>> >>)
     \o StageMix("Prepare", << <<PM, 15>>, <<SA, 35>>, <<FC, 45>>, <<QA, 5>> >>)
     \o StageMix("Sprint 0", << <<PM, 15>>, <<SA, 25>>, <<FC, 50>>, <<QA, 10>> >>)
     \o StageMix("Plan", << <<PM, 25>>, <<SA, 20>>, <<TA, 5>>, <<FC, 40>>, <<QA, 10>> >>)
     \o StageMix("Configure", << <<PM, 10>>, <<SA, 15>>, <<TA, 28>>, <<FC, 20>>,
                                <<QA, 10>>, <<IL, 7>>, <<IE, 6>>, <<EE, 4>> >>)
     \o StageMix("Test", << <<PM, 15>>, <<SA, 10>>, <<TA, 4>>, <<FC, 15>>,
                           <<QA, 40>>, <<IE, 6>>, <<EE, 10>> >>)
     \o StageMix("Deploy", << <<PM, 20>>, <<SA, 15>>, <<TA, 6>>, <<FC, 10>>,
                             <<QA, 20>>, <<IE, 15>>, <<EE, 14>> >>)
     \o StageMix("Go-Live", << <<PM, 25>>, <<SA, 20>>, <<FC, 45>>, <<QA, 10>> >>)
     \o StageMix("Post Go-Live (Care)",
                 << <<PM, 30>>, <<SA, 25>>, <<FC, 35>>, <<QA, 10>> >>),
    rates |-> <<
        Rate(PM, "US", 150, 75, 120), Rate(SA, "US", 175, 90, 140),
        Rate(FC, "US", 160, 85, 130), Rate(QA, "US", 140, 70, 110),
        Rate(IE, "US", 130, 65, 100), Rate(TA, "US", 170, 85, 135),
        Rate(IL, "US", 180, 95, 145), Rate(RC, "US", 165, 80, 125),
        Rate(EE, "US", 155, 80, 125), Rate(DWS, "US", 145, 72, 116),
        Rate(PM, "UK", 165, 82, 132), Rate(SA, "UK", 192, 99, 154),
        Rate(FC, "UK", 176, 93, 143), Rate(QA, "UK", 154, 77, 121),
        Rate(IE, "UK", 143, 71, 110), Rate(TA, "UK", 187, 93, 148),
        Rate(IL, "UK", 198, 104, 159), Rate(RC, "UK", 181, 88, 137),
        Rate(EE, "UK", 170, 88, 137), Rate(DWS, "UK", 159, 79, 127) >>,
    delivery_mix |-> <<
        DM(NoRole, Pct(70), Pct(20), Pct(10)),
        DM(PM, Pct(80), Pct(15), Pct(5)),
        DM(SA, Pct(75), Pct(20), Pct(5)) >>,
    addon_packages |-> <<
        Pkg("Integrations", <<
            Tier("Simple", Num(80),
                 Dist(<< <<IE, 60>>, <<TA, 25>>, <<QA, 10>>, <<PM, 5>> >>), FALSE),
            Tier("Standard", Num(160),
                 Dist(<< <<IE, 50>>, <<TA, 30>>, <<QA, 15>>, <<PM, 5>> >>), FALSE),
            Tier("Complex", Num(320),
                 Dist(<< <<IE, 45>>, <<TA, 30>>, <<IL, 15>>, <<QA, 10>> >>), FALSE) >>),
        Pkg("Reports", <<
            Tier("Simple", Num(24),
                 Dist(<< <<RC, 70>>, <<SA, 20>>, <<QA, 5>>, <<PM, 5>> >>), FALSE),
            Tier("Standard", Num(72),
                 Dist(<< <<RC, 60>>, <<SA, 25>>, <<QA, 10>>, <<PM, 5>> >>), FALSE),
            Tier("Complex", Num(160),
                 Dist(<< <<RC, 55>>, <<SA, 25>>, <<QA, 15>>, <<PM, 5>> >>), FALSE) >>),
        Pkg("Degree Works", <<
            Tier("Setup", Num(300),
                 Dist(<< <<DWS, 70>>, <<FC, 20>>, <<TA, 10>> >>), TRUE),
            Tier("PVE Simple", Num(24),
                 Dist(<< <<DWS, 70>>, <<FC, 20>>, <<TA, 10>> >>), FALSE),
            Tier("PVE Standard", Num(48),
                 Dist(<< <<DWS, 60>>, <<FC, 25>>, <<TA, 15>> >>), FALSE),
            Tier("PVE Complex", Num(96),
                 Dist(<< <<DWS, 50>>, <<FC, 30>>, <<TA, 20>> >>), FALSE) >>) >>,
    product_role_map |-> <<
        Toggle(PM, TRUE, TRUE, One), Toggle(SA, TRUE, TRUE, One),
        Toggle(FC, TRUE, TRUE, One), Toggle(QA, TRUE, TRUE, One),
        Toggle(IE, TRUE, TRUE, One), Toggle(TA, TRUE, FALSE, One),
        Toggle(IL, TRUE, FALSE, One), Toggle(RC, TRUE, TRUE, One),
        Toggle(EE, TRUE, TRUE, One), Toggle(DWS, TRUE, FALSE, One) >> ]

(***************************************************************************)
(* Outcomes of a constructor or loader call: a value or a raised exception. *)
(***************************************************************************)
Return(v) == [error |-> "", value |-> v]
Raise(e) == [error |-> e, value |-> <<>>]

\* float(cell): the cell's value as a floating-point number
float(x) == Fl(x)

Tol001 == float(Mil(1))    \* the literal 0.001
Tol01 == float(Pct(1))     \* the literal 0.01
Tol05 == float(Pct(5))     \* the literal 0.05

\* abs(total - 1.0) > tol
OffOne(total, tol) == Gt(QAbs(FSub(total, One)), tol)
\* Field(ge=lo, le=hi)
InRange(x, lo, hi) == Ge(x, lo) /\ Le(x, hi)

(***************************************************************************)
(* datatypes.py: the configuration models and their validation.             *)
(***************************************************************************)
StageWeight(row) ==
    LET w == float(row.weight)
    IN  IF InRange(w, Zero, One)
        THEN Return([phase |-> row.phase, stage |-> row.stage, weight |-> w])
        ELSE Raise("ValidationError")

StagePresales(row) ==
    LET p == float(row.default_pct)
    IN  IF InRange(p, Zero, One)
        THEN Return([stage |-> row.stage, default_pct |-> p])
        ELSE Raise("ValidationError")

ActivityDef(row) ==
    LET w == float(row.weight)
    IN  IF Gt(w, Zero)
        THEN Return([stage |-> row.stage, activity |-> row.activity,
                     weight |-> w, is_presales |-> row.is_presales])
        ELSE Raise("ValidationError")

RoleMix(row) ==
    LET p == float(row.pct)
    IN  IF InRange(p, Zero, One)
        THEN Return([stage |-> row.stage, role |-> row.role, pct |-> p])
        ELSE Raise("ValidationError")

RateCard(row) ==
    LET on == float(row.onshore)
        off == float(row.offshore)
        pa == float(row.partner)
    IN  IF Gt(on, Zero) /\ Gt(off, Zero) /\ Gt(pa, Zero)
        THEN Return([role |-> row.role, locale |-> row.locale, onshore |-> on,
                     offshore |-> off, partner |-> pa])
        ELSE Raise("ValidationError")

\* the field validator on partner_pct sees the two fields validated before it
DeliveryMix(row) ==
    LET on == float(row.onshore_pct)
        off == float(row.offshore_pct)
        pa == float(row.partner_pct)
        total == FAdd(FAdd(on, off), pa)
    IN  IF InRange(on, Zero, One) /\ InRange(off, Zero, One)
           /\ InRange(pa, Zero, One) /\ ~OffOne(total, Tol001)
        THEN Return([role |-> row.role, onshore_pct |-> on, offshore_pct |-> off,
                     partner_pct |-> pa])
        ELSE Raise("ValidationError")

AddOnTier(row) ==
    LET unit == float(row.unit_hours)
        dist == [i \in DOMAIN row.role_distribution |->
                    <<row.role_distribution[i][1], float(row.role_distribution[i][2])>>]
    IN  IF Gt(unit, Zero) /\ ~OffOne(FSum(DValues(dist)), Tol01)
        THEN Return([name |-> row.name, unit_hours |-> unit,
                     role_distribution |-> dist, scale_by_size |-> row.scale_by_size])
        ELSE Raise("ValidationError")

ProductRoleToggle(row) ==
    LET m == float(row.multiplier)
    IN  IF Ge(m, Zero)
        THEN Return([role |-> row.role, banner_enabled |-> row.banner_enabled,
                     colleague_enabled |-> row.colleague_enabled, multiplier |-> m])
        ELSE Raise("ValidationError")

\* a list of models built row by row: the first failing row raises;
\* models[i] is the outcome of constructing the model of row i
RECURSIVE BuildRows(_, _)
BuildRows(models, k) ==
    IF k = 0 THEN Return(<<>>)
    ELSE LET rest == BuildRows(models, k - 1)
             m == models[k]
         IN  IF rest.error # "" THEN rest
             ELSE IF m.error # "" THEN m
             ELSE Return(Append(rest.value, m.value))
BuildAll(models) == BuildRows(models, Len(models))

(***************************************************************************)
(* loader.py: ConfigurationLoader.                                          *)
(***************************************************************************)
load_baseline_hours(wb) == Return(float(wb.baseline_hours))

\* a defect: stage weights off by up to 0.05 are let through
load_stage_weights_two_tier(wb) ==
    LET Checked(weights) ==
            IF weights.error # "" THEN weights
            ELSE IF OffOne(FSum([i \in DOMAIN weights.value |-> weights.value[i].weight]),
                           Tol05)
                 THEN Raise("ValueError")
            ELSE weights
    IN  Checked(BuildAll([idx \in DOMAIN wb.stage_weights |-> StageWeight(wb.stage_weights[idx])]))

load_stage_weights(wb) ==
    LET Checked(weights) ==
            IF weights.error # "" THEN weights
            ELSE IF OffOne(FSum([i \in DOMAIN weights.value |-> weights.value[i].weight]),
                           Tol001)
                 THEN Raise("ValueError")
            ELSE weights
    IN  Checked(BuildAll([idx \in DOMAIN wb.stage_weights |-> StageWeight(wb.stage_weights[idx])]))

load_stages_presales(wb) == BuildAll([idx \in DOMAIN wb.stages_presales |-> StagePresales(wb.stages_presales[idx])])

load_activities(wb) == BuildAll([idx \in DOMAIN wb.activities |-> ActivityDef(wb.activities[idx])])

\* a stage whose role mix is off by more than 0.01 only prints a warning
load_role_mix(wb) == BuildAll([idx \in DOMAIN wb.role_mix |-> RoleMix(wb.role_mix[idx])])

load_rates(wb) == BuildAll([idx \in DOMAIN wb.rates |-> RateCard(wb.rates[idx])])

load_delivery_mix(wb) == BuildAll([idx \in DOMAIN wb.delivery_mix |-> DeliveryMix(wb.delivery_mix[idx])])

AddOnPackage(row) ==
    LET Package(tiers) ==
            IF tiers.error # "" THEN tiers
            ELSE Return([name |-> row.name, tiers |-> tiers.value,
                         scale_by_size |-> \E i \in DOMAIN row.tiers :
                                               row.tiers[i].scale_by_size])
    IN  Package(BuildAll([idx \in DOMAIN row.tiers |-> AddOnTier(row.tiers[idx])]))

load_addon_packages(wb) == BuildAll([idx \in DOMAIN wb.addon_packages |-> AddOnPackage(wb.addon_packages[idx])])

load_product_role_map(wb) == BuildAll([idx \in DOMAIN wb.product_role_map |-> ProductRoleToggle(wb.product_role_map[idx])])

\* the default caps: the workbook has no Add-On Caps sheet and no cap rows
load_addon_caps(wb) ==
    << <<"Degree Works", << <<"Small", float(Num(300))>>, <<"Medium", float(Num(400))>>,
                           <<"Large", float(Num(500))>>,
                           <<"Very Large", float(Num(600))>> >> >> >>

\* the default multipliers: the workbook has no Product Multipliers sheet
load_product_multipliers(wb) ==
    << <<"Banner", << <<"Net New", float(Num(1))>>,
                     <<"Modernization", float(Pct(90))>> >> >>,
       <<"Colleague", << <<"Net New", float(Pct(85))>>,
                        <<"Modernization", float(Pct(75))>> >> >> >>

\* the ConfigurationData defaults the loader leaves alone
size_multipliers ==
    << <<"Small", float(Pct(85))>>, <<"Medium", float(Num(1))>>,
       <<"Large", float(Pct(125))>>, <<"Very Large", float(Pct(150))>> >>

delivery_type_multipliers ==
    << <<"Modernization", float(Pct(90))>>, <<"Net New", float(Num(1))>> >>

\* the sheets are read in the order of the ConfigurationData arguments; the
\* first one that raises ends the load
load_configuration(wb) ==
    LET ConfigurationData(sw, sp, ac, rm, rt, dm, ap, pr) ==
        IF sw.error # "" THEN sw
        ELSE IF sp.error # "" THEN sp
        ELSE IF ac.error # "" THEN ac
        ELSE IF rm.error # "" THEN rm
        ELSE IF rt.error # "" THEN rt
        ELSE IF dm.error # "" THEN dm
        ELSE IF ap.error # "" THEN ap
        ELSE IF pr.error # "" THEN pr
        ELSE Return([baseline_hours |-> load_baseline_hours(wb).value,
                     stage_weights |-> sw.value,
                     stages_presales |-> sp.value,
                     activities |-> ac.value,
                     role_mix |-> rm.value,
                     rates |-> rt.value,
                     delivery_mix |-> dm.value,
                     addon_packages |-> ap.value,
                     product_role_map |-> pr.value,
                     size_multipliers |-> size_multipliers,
                     delivery_type_multipliers |-> delivery_type_multipliers,
                     addon_caps |-> load_addon_caps(wb),
                     product_delivery_type_multipliers |-> load_product_multipliers(wb)])
    IN  ConfigurationData(load_stage_weights(wb), load_stages_presales(wb),
                          load_activities(wb), load_role_mix(wb), load_rates(wb),
                          load_delivery_mix(wb), load_addon_packages(wb),
                          load_product_role_map(wb))

(***************************************************************************)
(* pricing.py: the lookup caches of PricingEngine.                          *)
(***************************************************************************)
RECURSIVE RateCacheTo(_, _)
RateCacheTo(rates, k) ==
    IF k = 0 THEN <<>>
    ELSE DSet(RateCacheTo(rates, k - 1), <<rates[k].role, rates[k].locale>>, rates[k])

RECURSIVE MixCacheTo(_, _)
MixCacheTo(mixes, k) ==
    IF k = 0 THEN <<>>
    ELSE DSet(MixCacheTo(mixes, k - 1), mixes[k].role, mixes[k])

build_rate_cache(cfg) == RateCacheTo(cfg.rates, Len(cfg.rates))
build_delivery_mix_cache(cfg) == MixCacheTo(cfg.delivery_mix, Len(cfg.delivery_mix))

\* PricingEngine.update_rate: the cache entry of (role, locale) is set
update_rate(rc, role, locale, onshore, offshore, partner) ==
    DSet(rc, <<role, locale>>,
         [role |-> role, locale |-> locale, onshore |-> onshore,
          offshore |-> offshore, partner |-> partner])

\* PricingEngine.update_global_delivery_mix: the cache entry of None is set
update_global_delivery_mix(mc, onshore_pct, offshore_pct, partner_pct) ==
    DSet(mc, NoRole,
         [role |-> NoRole, onshore_pct |-> onshore_pct,
          offshore_pct |-> offshore_pct, partner_pct |-> partner_pct])

\* PricingEngine.update_role_delivery_mix: the cache entry of the role is set
update_role_delivery_mix(mc, role, onshore_pct, offshore_pct, partner_pct) ==
    DSet(mc, role,
         [role |-> role, onshore_pct |-> onshore_pct,
          offshore_pct |-> offshore_pct, partner_pct |-> partner_pct])

\* PricingEngine.reset_from_config: both caches are rebuilt from the
\* configuration
reset_from_config(cfg) ==
    [rate_cache |-> build_rate_cache(cfg),
     mix_cache |-> build_delivery_mix_cache(cfg)]

\* orchestrator.py, apply_rate_overrides: the first k rows, in order
RECURSIVE RateOverridesTo(_, _, _)
RateOverridesTo(rc, overrides, k) ==
    IF k = 0 THEN rc
    ELSE update_rate(RateOverridesTo(rc, overrides, k - 1), overrides[k].role,
                     overrides[k].locale, float(overrides[k].onshore),
                     float(overrides[k].offshore), float(overrides[k].partner))

\* a defect: only the first row of the overrides is applied
apply_rate_overrides_first_row(rc, overrides) ==
    RateOverridesTo(rc, overrides, IF Len(overrides) > 0 THEN 1 ELSE 0)

apply_rate_overrides(rc, overrides) ==
    RateOverridesTo(rc, overrides, Len(overrides))

RECURSIVE RoleMixOverridesTo(_, _, _)
RoleMixOverridesTo(mc, role_overrides, k) ==
    IF k = 0 THEN mc
    ELSE update_role_delivery_mix(
            RoleMixOverridesTo(mc, role_overrides, k - 1), role_overrides[k].role,
            float(role_overrides[k].onshore_pct),
            float(role_overrides[k].offshore_pct),
            float(role_overrides[k].partner_pct))

\* `if global_mix:` is false for None
apply_delivery_mix_overrides(mc, global_mix, role_overrides) ==
    RoleMixOverridesTo(
        IF global_mix # None
        THEN update_global_delivery_mix(mc, float(global_mix[1].onshore_pct),
                                        float(global_mix[1].offshore_pct),
                                        float(global_mix[1].partner_pct))
        ELSE mc,
        role_overrides, Len(role_overrides))

(***************************************************************************)
(* datatypes.py: EstimationInputs.  A constructor call passes some of the   *)
(* fields as keyword arguments (a function from field names to values);     *)
(* the others take their defaults.                                          *)
(***************************************************************************)
Defaults ==
  [ product |-> "Banner", delivery_type |-> "Net New", size_band |-> "Medium",
    locale |-> "US", maturity_factor |-> float(Num(1)),
    integrations_count |-> 30,
    integrations_simple_pct |-> float(Pct(60)),
    integrations_standard_pct |-> float(Pct(30)),
    integrations_complex_pct |-> float(Pct(10)),
    reports_count |-> 40,
    reports_simple_pct |-> float(Pct(50)),
    reports_standard_pct |-> float(Pct(35)),
    reports_complex_pct |-> float(Pct(15)),
    include_integrations |-> FALSE, include_reports |-> FALSE,
    include_degreeworks |-> FALSE, degreeworks_include_setup |-> TRUE,
    degreeworks_use_pve_calculator |-> TRUE,
    degreeworks_majors |-> 0, degreeworks_minors |-> 0,
    degreeworks_certificates |-> 0, degreeworks_concentrations |-> 0,
    degreeworks_catalog_years |-> 1, degreeworks_pve_count |-> 0,
    degreeworks_simple_pct |-> float(Pct(50)),
    degreeworks_standard_pct |-> float(Pct(35)),
    degreeworks_complex_pct |-> float(Pct(15)),
    sprint0_uplift_pct |-> float(Pct(2)),
    degreeworks_cap_enabled |-> TRUE, degreeworks_cap_hours |-> None ]

FloatFields ==
    {"maturity_factor", "integrations_simple_pct", "integrations_standard_pct",
     "integrations_complex_pct", "reports_simple_pct", "reports_standard_pct",
     "reports_complex_pct", "degreeworks_simple_pct", "degreeworks_standard_pct",
     "degreeworks_complex_pct", "sprint0_uplift_pct"}
PctFields == FloatFields \ {"maturity_factor", "sprint0_uplift_pct"}
CountFields ==
    {"integrations_count", "reports_count", "degreeworks_majors",
     "degreeworks_minors", "degreeworks_certificates",
     "degreeworks_concentrations", "degreeworks_pve_count"}

\* the value a field takes: the converted argument, or the default
FieldValue(kw, f) ==
    IF f \notin DOMAIN kw THEN Defaults[f]
    ELSE IF f \in FloatFields THEN float(kw[f])
    ELSE IF f = "degreeworks_cap_hours"
         THEN (IF kw[f] = None THEN None ELSE float(kw[f]))
    ELSE kw[f]

\* the Field(...) constraint of a field; only passed values are validated
FieldOk(f, v) ==
    IF f \in PctFields THEN InRange(v, Zero, One)
    ELSE IF f = "maturity_factor" THEN InRange(v, float(<<1, 2>>), float(Num(2)))
    ELSE IF f = "sprint0_uplift_pct" THEN InRange(v, Zero, float(Pct(5)))
    ELSE IF f \in CountFields THEN v >= 0
    ELSE IF f = "degreeworks_catalog_years" THEN v >= 1
    ELSE TRUE

\* validate_integrations_mix, validate_reports_mix, validate_degreeworks_mix:
\* field validators of <package>_complex_pct, run when that field is passed
validate_mix(data, package) ==
    LET simple == data[package \o "_simple_pct"]
        standard == data[package \o "_standard_pct"]
        v == data[package \o "_complex_pct"]
        total == FAdd(FAdd(simple, standard), v)
    IN  ~OffOne(total, Tol001)

MixPackages == {"integrations", "reports", "degreeworks"}

EstimationInputs(kw) ==
    LET Validated(data) ==
            IF /\ \A f \in DOMAIN kw : FieldOk(f, data[f])
               /\ \A p \in MixPackages :
                    (p \o "_complex_pct") \in DOMAIN kw => validate_mix(data, p)
            THEN Return(data)
            ELSE Raise("ValidationError")
    IN  Validated([f \in DOMAIN Defaults |-> FieldValue(kw, f)])

(***************************************************************************)
(* estimator.py: EstimationEngine.                                          *)
(***************************************************************************)
\* a dict comprehension / repeated assignment of <<key, value>> pairs
RECURSIVE DictTo(_, _)
DictTo(pairs, k) ==
    IF k = 0 THEN <<>> ELSE DSet(DictTo(pairs, k - 1), pairs[k][1], pairs[k][2])
Dict(pairs) == DictTo(pairs, Len(pairs))

\* a defect: the default of the stage is taken before its activities
calculate_presales_percentage_default_first(cfg, stage) ==
    LET IsStage(a) == a.stage = stage
        IsPresales(a) == a.is_presales
        stage_activities == Filter(cfg.activities, [idx \in DOMAIN cfg.activities |-> IsStage(cfg.activities[idx])])
        total_weight ==
            FSum([i \in DOMAIN stage_activities |-> stage_activities[i].weight])
        presales_activities == Filter(stage_activities, [idx \in DOMAIN stage_activities |-> IsPresales(stage_activities[idx])])
        presales_weight ==
            FSum([i \in DOMAIN presales_activities |-> presales_activities[i].weight])
        defaults == Filter(cfg.stages_presales, [idx \in DOMAIN cfg.stages_presales |-> IsStage(cfg.stages_presales[idx])])
    IN  IF Len(defaults) > 0 THEN defaults[1].default_pct
        ELSE IF Len(stage_activities) > 0 /\ Gt(total_weight, Zero)
        THEN FDiv(presales_weight, total_weight)
        ELSE Zero

calculate_presales_percentage(cfg, stage) ==
    LET IsStage(a) == a.stage = stage
        IsPresales(a) == a.is_presales
        stage_activities == Filter(cfg.activities, [idx \in DOMAIN cfg.activities |-> IsStage(cfg.activities[idx])])
        total_weight ==
            FSum([i \in DOMAIN stage_activities |-> stage_activities[i].weight])
        presales_activities == Filter(stage_activities, [idx \in DOMAIN stage_activities |-> IsPresales(stage_activities[idx])])
        presales_weight ==
            FSum([i \in DOMAIN presales_activities |-> presales_activities[i].weight])
        defaults == Filter(cfg.stages_presales, [idx \in DOMAIN cfg.stages_presales |-> IsStage(cfg.stages_presales[idx])])
    IN  IF Len(stage_activities) > 0 /\ Gt(total_weight, Zero)
        THEN FDiv(presales_weight, total_weight)
        ELSE IF Len(defaults) > 0 THEN defaults[1].default_pct
        ELSE Zero

\* a defect: the product-specific multiplier table is never consulted
effective_delivery_mult_global_only(cfg, inp) ==
    DGet(cfg.delivery_type_multipliers, inp.delivery_type, One)

\* the effective delivery-type multiplier: product-specific, else global, else 1.0
effective_delivery_mult(cfg, inp) ==
    LET product_mult ==
            DGet(DGet(cfg.product_delivery_type_multipliers, inp.product, <<>>),
                 inp.delivery_type, None)
    IN  IF product_mult # None THEN product_mult
        ELSE DGet(cfg.delivery_type_multipliers, inp.delivery_type, One)

adjusted_base(cfg, inp) ==
    FMul(FMul(FMul(cfg.baseline_hours,
                   DGet(cfg.size_multipliers, inp.size_band, One)),
              effective_delivery_mult(cfg, inp)),
         inp.maturity_factor)

\* a defect: the donors give up equal halves of the uplift
donor_weight_equal_shares(w, uplift, donor_total) ==
    FMax(FSub(w, FMul(uplift, <<1, 2>>)), Zero)

\* the donors give up the uplift in proportion to their weights
donor_weight(w, uplift, donor_total) ==
    FMax(FSub(w, FMul(uplift, FDiv(w, donor_total))), Zero)

\* a defect: the weights are not renormalised after the transfer
uplifted_weights_not_renormalised(cfg, inp) ==
    LET weights ==
            Dict([i \in DOMAIN cfg.stage_weights |->
                    <<cfg.stage_weights[i].stage, cfg.stage_weights[i].weight>>])
        uplift == inp.sprint0_uplift_pct
        plan == DGet(weights, "Plan", Zero)
        configure == DGet(weights, "Configure", Zero)
        donor_total == FAdd(FAdd(Zero, plan), configure)
        w1 == DSet(weights, "Sprint 0", FAdd(DGet(weights, "Sprint 0", Zero), uplift))
        w2 == DSet(w1, "Plan", donor_weight(plan, uplift, donor_total))
        w3 == DSet(w2, "Configure", donor_weight(configure, uplift, donor_total))
    IN  IF Gt(uplift, Zero) /\ Gt(donor_total, Zero) THEN w3 ELSE weights

\* the working weights after the Sprint 0 uplift and the renormalisation
uplifted_weights(cfg, inp) ==
    LET uplift == inp.sprint0_uplift_pct
        \* each step takes the values the steps before it have computed
        Renormalised(w, total) ==
            [i \in DOMAIN w |-> <<w[i][1], FDiv(w[i][2], total)>>]
        Moved(w) == Renormalised(w, FSum(DValues(w)))
        Uplifted(weights, plan, configure, donor_total) ==
            IF Gt(uplift, Zero) /\ Gt(donor_total, Zero)
            THEN Moved(DSet(DSet(DSet(weights,
                        "Sprint 0", FAdd(DGet(weights, "Sprint 0", Zero), uplift)),
                        "Plan", donor_weight(plan, uplift, donor_total)),
                        "Configure", donor_weight(configure, uplift, donor_total)))
            ELSE weights
        Donors(weights, plan, configure) ==
            Uplifted(weights, plan, configure, FAdd(FAdd(Zero, plan), configure))
        Working(weights) ==
            Donors(weights, DGet(weights, "Plan", Zero), DGet(weights, "Configure", Zero))
    IN  Working(Dict([i \in DOMAIN cfg.stage_weights |->
                        <<cfg.stage_weights[i].stage, cfg.stage_weights[i].weight>>]))

presales_split(total_hours, presales_pct) == FMul(total_hours, presales_pct)

\* a defect: the presales share is not taken out of the delivery hours
delivery_split_keeps_presales(total_hours, presales_hours) == total_hours

delivery_split(total_hours, presales_hours) == FSub(total_hours, presales_hours)

\* each step takes the values the steps before it have computed
estimate_base_n2s(cfg, inp) ==
    LET StageHours(stage_hours_dict, presales_hours_dict) ==
            [stage_hours |-> stage_hours_dict,
             presales_hours |-> presales_hours_dict,
             delivery_hours |->
                [i \in DOMAIN stage_hours_dict |->
                    <<stage_hours_dict[i][1],
                      delivery_split(stage_hours_dict[i][2],
                                     presales_hours_dict[i][2])>>]]
        Split(stage_hours_dict, presales_pct) ==
            StageHours(stage_hours_dict,
                       [i \in DOMAIN stage_hours_dict |->
                            <<stage_hours_dict[i][1],
                              presales_split(stage_hours_dict[i][2],
                                             presales_pct[i])>>])
        Allocated(weights, base, presales_pct) ==
            Split([i \in DOMAIN weights |->
                        <<weights[i][1], FMul(base, weights[i][2])>>],
                  presales_pct)
        Weighted(weights) ==
            Allocated(weights, adjusted_base(cfg, inp),
                      [i \in DOMAIN weights |->
                            calculate_presales_percentage(cfg, weights[i][1])])
    IN  Weighted(uplifted_weights(cfg, inp))

(***************************************************************************)
(* pricing.py: PricingEngine.  rc and mc are the rate and delivery-mix      *)
(* caches.                                                                  *)
(***************************************************************************)
RECURSIVE Concat(_, _)
Concat(seqs, k) == IF k = 0 THEN <<>> ELSE Concat(seqs, k - 1) \o seqs[k]
Flatten(seqs) == Concat(seqs, Len(seqs))

\* str.lower() on the product names in use
lower(product) ==
    CASE product = "Banner" -> "banner"
      [] product = "Colleague" -> "colleague"
      [] product = "Other" -> "other"
      [] OTHER -> product

\* a defect: the Banner flag is read for every product
toggle_enabled_banner_flag(role_toggle, product) ==
    lower(product) \in {"banner", "colleague"} /\ role_toggle.banner_enabled

toggle_enabled(role_toggle, product) ==
    \/ lower(product) = "banner" /\ role_toggle.banner_enabled
    \/ lower(product) = "colleague" /\ role_toggle.colleague_enabled

\* the enabled roles (only membership is ever used)
get_enabled_roles(cfg, product) ==
    LET enabled_roles ==
            {cfg.product_role_map[i].role : i \in
                {j \in DOMAIN cfg.product_role_map :
                    toggle_enabled(cfg.product_role_map[j], product)}}
    IN  IF enabled_roles = {}
        THEN {cfg.role_mix[i].role : i \in DOMAIN cfg.role_mix}
        ELSE enabled_roles

get_stage_roles(cfg, stage) ==
    LET IsStage(rm) == rm.stage = stage
        rows == Filter(cfg.role_mix, [idx \in DOMAIN cfg.role_mix |-> IsStage(cfg.role_mix[idx])])
    IN  [i \in DOMAIN rows |-> rows[i].role]

get_role_percentage(cfg, stage, role) ==
    LET IsRow(rm) == rm.stage = stage /\ rm.role = role
        rows == Filter(cfg.role_mix, [idx \in DOMAIN cfg.role_mix |-> IsRow(cfg.role_mix[idx])])
    IN  IF Len(rows) > 0 THEN rows[1].pct ELSE Zero

get_product_multiplier(cfg, product, role) ==
    LET IsRole(t) == t.role = role
        rows == Filter(cfg.product_role_map, [idx \in DOMAIN cfg.product_role_map |-> IsRole(cfg.product_role_map[idx])])
    IN  IF Len(rows) = 0 THEN One
        ELSE IF toggle_enabled(rows[1], product) THEN rows[1].multiplier
        ELSE Zero

\* a defect: the global split is looked up before the split of the role
get_delivery_split_global_first(mc, role) ==
    IF DHas(mc, NoRole) THEN DGet(mc, NoRole, None)
    ELSE IF DHas(mc, role) THEN DGet(mc, role, None)
    ELSE [role |-> NoRole, onshore_pct |-> float(Pct(70)),
          offshore_pct |-> float(Pct(20)), partner_pct |-> float(Pct(10))]

get_delivery_split(mc, role) ==
    IF DHas(mc, role) THEN DGet(mc, role, None)
    ELSE IF DHas(mc, NoRole) THEN DGet(mc, NoRole, None)
    ELSE [role |-> NoRole, onshore_pct |-> float(Pct(70)),
          offshore_pct |-> float(Pct(20)), partner_pct |-> float(Pct(10))]

\* a defect: a role without a rate card for the locale gets the fixed rates
get_rates_without_us_fallback(rc, role, locale) ==
    IF DHas(rc, <<role, locale>>) THEN DGet(rc, <<role, locale>>, None)
    ELSE [role |-> role, locale |-> locale, onshore |-> float(Num(100)),
          offshore |-> float(Num(50)), partner |-> float(Num(75))]

get_rates(rc, role, locale) ==
    IF DHas(rc, <<role, locale>>) THEN DGet(rc, <<role, locale>>, None)
    ELSE IF DHas(rc, <<role, "US">>) THEN DGet(rc, <<role, "US">>, None)
    ELSE [role |-> role, locale |-> locale, onshore |-> float(Num(100)),
          offshore |-> float(Num(50)), partner |-> float(Num(75))]

\* the delivery split and pricing of one role's hours (total_hours > 0)
RoleHours(rc, mc, role, stage, total_hours, locale) ==
    LET Priced(onshore_hours, offshore_hours, partner_hours,
               onshore_cost, offshore_cost, partner_cost, total_cost) ==
            [role |-> role, stage |-> stage, total_hours |-> total_hours,
             onshore_hours |-> onshore_hours, offshore_hours |-> offshore_hours,
             partner_hours |-> partner_hours, onshore_cost |-> onshore_cost,
             offshore_cost |-> offshore_cost, partner_cost |-> partner_cost,
             total_cost |-> total_cost,
             blended_rate |-> FDiv(total_cost, total_hours)]
        Costed(onshore_hours, offshore_hours, partner_hours,
               onshore_cost, offshore_cost, partner_cost) ==
            Priced(onshore_hours, offshore_hours, partner_hours,
                   onshore_cost, offshore_cost, partner_cost,
                   FAdd(FAdd(onshore_cost, offshore_cost), partner_cost))
        Shared(rates, onshore_hours, offshore_hours, partner_hours) ==
            Costed(onshore_hours, offshore_hours, partner_hours,
                   FMul(onshore_hours, rates.onshore),
                   FMul(offshore_hours, rates.offshore),
                   FMul(partner_hours, rates.partner))
        Looked(split, rates) ==
            Shared(rates, FMul(total_hours, split.onshore_pct),
                   FMul(total_hours, split.offshore_pct),
                   FMul(total_hours, split.partner_pct))
    IN  Looked(get_delivery_split(mc, role), get_rates(rc, role, locale))

\* a defect: a role without a rate card for the locale is skipped
stage_role_hours_needs_locale_rates(cfg, rc, mc, stage, delivery_hours, role, inp) ==
    LET total_hours ==
            FMul(FMul(delivery_hours, get_role_percentage(cfg, stage, role)),
                 get_product_multiplier(cfg, inp.product, role))
    IN  IF role \notin get_enabled_roles(cfg, inp.product) THEN <<>>
        ELSE IF Le(get_role_percentage(cfg, stage, role), Zero) THEN <<>>
        ELSE IF Le(total_hours, Zero) THEN <<>>
        ELSE IF ~DHas(rc, <<role, inp.locale>>) THEN <<>>
        ELSE <<RoleHours(rc, mc, role, stage, total_hours, inp.locale)>>

\* the priced hours of one role in one base stage, or nothing when skipped
stage_role_hours(cfg, rc, mc, stage, delivery_hours, role, inp) ==
    LET Expanded(role_pct, total_hours) ==
            IF role \notin get_enabled_roles(cfg, inp.product) THEN <<>>
            ELSE IF Le(role_pct, Zero) THEN <<>>
            ELSE IF Le(total_hours, Zero) THEN <<>>
            ELSE <<RoleHours(rc, mc, role, stage, total_hours, inp.locale)>>
        Mixed(role_pct) ==
            Expanded(role_pct,
                     FMul(FMul(delivery_hours, role_pct),
                          get_product_multiplier(cfg, inp.product, role)))
    IN  Mixed(get_role_percentage(cfg, stage, role))

\* a defect: the roles are given the stage hours, presales hours included
role_hours_of_stage_hours(cfg, rc, mc, stage_hours, inp) ==
    LET sh == stage_hours.stage_hours
        StageRows(i) ==
            LET stage_roles == get_stage_roles(cfg, sh[i][1])
            IN  IF Le(sh[i][2], Zero) THEN <<>>
                ELSE Flatten([j \in DOMAIN stage_roles |->
                        stage_role_hours(cfg, rc, mc, sh[i][1], sh[i][2],
                                         stage_roles[j], inp)])
    IN  Flatten([i \in DOMAIN sh |-> StageRows(i)])

calculate_role_hours_and_costs(cfg, rc, mc, stage_hours, inp) ==
    LET dh == stage_hours.delivery_hours
        StageRows(i) ==
            LET stage_roles == get_stage_roles(cfg, dh[i][1])
            IN  IF Le(dh[i][2], Zero) THEN <<>>
                ELSE Flatten([j \in DOMAIN stage_roles |->
                        stage_role_hours(cfg, rc, mc, dh[i][1], dh[i][2],
                                         stage_roles[j], inp)])
    IN  Flatten([i \in DOMAIN dh |-> StageRows(i)])

(***************************************************************************)
(* addons.py: AddOnEngine.                                                  *)
(***************************************************************************)
\* sorted(role_hours_list, key=total_cost, reverse=True): a stable sort
RECURSIVE InsertByCost(_, _, _)
InsertByCost(sorted, rh, k) ==
    IF k > Len(sorted) THEN Append(sorted, rh)
    ELSE IF Lt(sorted[k].total_cost, rh.total_cost)
         THEN SubSeq(sorted, 1, k - 1) \o <<rh>> \o SubSeq(sorted, k, Len(sorted))
    ELSE InsertByCost(sorted, rh, k + 1)

RECURSIVE SortByCostTo(_, _)
SortByCostTo(xs, k) ==
    IF k = 0 THEN <<>> ELSE InsertByCost(SortByCostTo(xs, k - 1), xs[k], 1)
SortByCost(xs) == SortByCostTo(xs, Len(xs))

\* role_hours_dict[role] += hours, for each <<role, hours>> pair in turn
RECURSIVE AccumulateTo(_, _, _)
AccumulateTo(d, pairs, k) ==
    IF k = 0 THEN d
    ELSE LET rest == AccumulateTo(d, pairs, k - 1)
             role == pairs[k][1]
         IN  IF DHas(rest, role)
             THEN DSet(rest, role, FAdd(DGet(rest, role, Zero), pairs[k][2]))
             ELSE DSet(rest, role, pairs[k][2])
Accumulate(d, pairs) == AccumulateTo(d, pairs, Len(pairs))

\* the hours of a tier handed to its roles
distribute(tier, hours) ==
    [i \in DOMAIN tier.role_distribution |->
        <<tier.role_distribution[i][1], FMul(hours, tier.role_distribution[i][2])>>]

empty_stage_hours ==
    [stage_hours |-> <<>>, presales_hours |-> <<>>, delivery_hours |-> <<>>]

\* the package cache keeps the last package of each name
get_package(cfg, package_name) ==
    LET IsNamed(p) == p.name = package_name
        found == Filter(cfg.addon_packages, [idx \in DOMAIN cfg.addon_packages |-> IsNamed(cfg.addon_packages[idx])])
    IN  IF Len(found) = 0 THEN <<>> ELSE <<found[Len(found)]>>

\* a defect: the add-on rows are priced with the US rate cards
create_role_hours_us_rates(cfg, rc, mc, role_hours_dict, stage, inp) ==
    LET Priced(role, hours, total_hours) ==
            IF role \notin get_enabled_roles(cfg, inp.product) \/ Le(hours, Zero)
            THEN <<>>
            ELSE IF Le(total_hours, Zero) THEN <<>>
            ELSE <<RoleHours(rc, mc, role, stage, total_hours, "US")>>
        Row(role, hours) ==
            Priced(role, hours,
                   FMul(hours, get_product_multiplier(cfg, inp.product, role)))
    IN  SortByCost(Flatten([i \in DOMAIN role_hours_dict |->
                                Row(role_hours_dict[i][1], role_hours_dict[i][2])]))

create_role_hours(cfg, rc, mc, role_hours_dict, stage, inp) ==
    LET Priced(role, hours, total_hours) ==
            IF role \notin get_enabled_roles(cfg, inp.product) \/ Le(hours, Zero)
            THEN <<>>
            ELSE IF Le(total_hours, Zero) THEN <<>>
            ELSE <<RoleHours(rc, mc, role, stage, total_hours, inp.locale)>>
        Row(role, hours) ==
            Priced(role, hours,
                   FMul(hours, get_product_multiplier(cfg, inp.product, role)))
    IN  SortByCost(Flatten([i \in DOMAIN role_hours_dict |->
                                Row(role_hours_dict[i][1], role_hours_dict[i][2])]))

\* a defect: every tier is scaled by the size band, whatever its flag
tier_hours_always_scaled(cfg, tier, count, mix, inp) ==
    FMul(FMul(FMul(Num(count), mix), tier.unit_hours),
         DGet(cfg.size_multipliers, inp.size_band, One))

tier_hours_of(cfg, tier, count, mix, inp) ==
    LET hours == FMul(FMul(Num(count), mix), tier.unit_hours)
    IN  IF tier.scale_by_size
        THEN FMul(hours, DGet(cfg.size_multipliers, inp.size_band, One))
        ELSE hours

\* the hours of each tier of a package, by tier name
calculate_tier_hours(cfg, tiers, count, tier_mix, inp) ==
    Dict([i \in DOMAIN tiers |->
            <<tiers[i].name,
              tier_hours_of(cfg, tiers[i], count,
                            DGet(tier_mix, tiers[i].name, Zero), inp)>>])

\* the hours of each tier handed to its roles, tier after tier
distribute_to_roles(tiers, tier_hours) ==
    LET TierRoles(tier, hours) ==
            IF Gt(hours, Zero) THEN distribute(tier, hours) ELSE <<>>
    IN  Accumulate(<<>>, Flatten([i \in DOMAIN tiers |->
            TierRoles(tiers[i], DGet(tier_hours, tiers[i].name, Zero))]))

\* the stage hours (all delivery) and the priced role hours of a package
package_hours(cfg, rc, mc, package_name, role_hours_dict, inp) ==
    << [stage_hours |-> << <<package_name, FSum(DValues(role_hours_dict))>> >>,
        presales_hours |-> << <<package_name, Zero>> >>,
        delivery_hours |-> << <<package_name, FSum(DValues(role_hours_dict))>> >>],
       create_role_hours(cfg, rc, mc, role_hours_dict, package_name, inp) >>

calculate_package(cfg, rc, mc, package_name, count, tier_mix, inp) ==
    IF count <= 0 \/ get_package(cfg, package_name) = <<>>
    THEN <<empty_stage_hours, <<>> >>
    ELSE package_hours(cfg, rc, mc, package_name,
            distribute_to_roles(get_package(cfg, package_name)[1].tiers,
                calculate_tier_hours(cfg, get_package(cfg, package_name)[1].tiers,
                                     count, tier_mix, inp)),
            inp)

calculate_integrations(cfg, rc, mc, inp) ==
    IF ~inp.include_integrations THEN <<empty_stage_hours, <<>> >>
    ELSE calculate_package(cfg, rc, mc, "Integrations", inp.integrations_count,
            << <<"Simple", inp.integrations_simple_pct>>,
               <<"Standard", inp.integrations_standard_pct>>,
               <<"Complex", inp.integrations_complex_pct>> >>, inp)

calculate_reports(cfg, rc, mc, inp) ==
    IF ~inp.include_reports THEN <<empty_stage_hours, <<>> >>
    ELSE calculate_package(cfg, rc, mc, "Reports", inp.reports_count,
            << <<"Simple", inp.reports_simple_pct>>,
               <<"Standard", inp.reports_standard_pct>>,
               <<"Complex", inp.reports_complex_pct>> >>, inp)

\* how calculate_degreeworks reads a tier name (lower-cased): the setup
\* tier, a PVE tier of one of the three complexities, or a tier it ignores
tier_kind(name) ==
    CASE name = "Setup" -> "setup"
      [] name = "PVE Simple" -> "simple"
      [] name = "PVE Standard" -> "standard"
      [] name = "PVE Complex" -> "complex"
      [] OTHER -> "other"

SetupStage == "Degree Works - Setup"
PVEStage == "Degree Works - PVEs"

\* truth value of an optional float: None and 0.0 are false
Truthy(x) == x # None /\ x # Zero

pve_count_of(inp) ==
    IF inp.degreeworks_use_pve_calculator
    THEN FMul(FAdd(Num(inp.degreeworks_majors),
                   FMul(<<1, 2>>, Num(inp.degreeworks_minors
                                      + inp.degreeworks_certificates
                                      + inp.degreeworks_concentrations))),
              Num(inp.degreeworks_catalog_years))
    ELSE Num(inp.degreeworks_pve_count)

\* the cap in force: the override if it is truthy, else the size band's cap
degreeworks_cap_value(cfg, inp) ==
    IF Truthy(inp.degreeworks_cap_hours) THEN inp.degreeworks_cap_hours
    ELSE DGet(DGet(cfg.addon_caps, "Degree Works", <<>>), inp.size_band, None)

\* the role hours of the combined Setup and PVE hours, each role priced alone
degreeworks_role_list(cfg, rc, mc, combined, inp) ==
    LET First(priced) == IF Len(priced) > 0 THEN <<priced[1]>> ELSE <<>>
    IN  Flatten([i \in DOMAIN combined |->
            IF Gt(combined[i][2], Zero)
            THEN First(create_role_hours(cfg, rc, mc, <<combined[i]>>,
                                         "Degree Works", inp))
            ELSE <<>>])

\* the StageHours of the two Degree Works stages and the combined role hours
degreeworks_combine(cfg, rc, mc, inp, setup_hours_dict, pve_hours_dict, stage_hours_dict) ==
    << [stage_hours |-> stage_hours_dict,
        presales_hours |-> << <<SetupStage, Zero>>, <<PVEStage, Zero>> >>,
        delivery_hours |->
            << <<SetupStage, DGet(stage_hours_dict, SetupStage, Zero)>>,
               <<PVEStage, DGet(stage_hours_dict, PVEStage, Zero)>> >>],
       degreeworks_role_list(cfg, rc, mc,
            Accumulate(Accumulate(<<>>, [i \in DOMAIN setup_hours_dict |->
                            <<setup_hours_dict[i][1],
                              FAdd(Zero, setup_hours_dict[i][2])>>]),
                       pve_hours_dict),
            inp) >>

\* the PVE role hours scaled by the ratio, and the PVE stage hours replaced
\* by their sum
degreeworks_scale(cfg, rc, mc, inp, setup_hours_dict, scaled_hours_dict, stage_hours_dict) ==
    degreeworks_combine(cfg, rc, mc, inp, setup_hours_dict, scaled_hours_dict,
        DSet(stage_hours_dict, PVEStage, FSum(DValues(scaled_hours_dict))))

\* the cap on Setup plus PVE hours: when it is enabled and its value is truthy,
\* PVE hours above the allowance left by the Setup hours are scaled down
degreeworks_cap(cfg, rc, mc, inp, setup_hours_dict, pve_hours_dict, stage_hours_dict, total_pve_hours) ==
    LET total_setup_hours == DGet(stage_hours_dict, SetupStage, Zero)
        cap_value == degreeworks_cap_value(cfg, inp)
        allowance_for_pve == FMax(FSub(cap_value, total_setup_hours), Zero)
        ratio ==
            IF Gt(total_pve_hours, Zero)
            THEN FDiv(allowance_for_pve, total_pve_hours) ELSE Zero
        Scaled(by) ==
            [i \in DOMAIN pve_hours_dict |->
                <<pve_hours_dict[i][1], FMul(pve_hours_dict[i][2], by)>>]
    IN  IF /\ inp.degreeworks_cap_enabled
           /\ Truthy(cap_value)
           /\ Gt(total_pve_hours, allowance_for_pve)
        THEN degreeworks_scale(cfg, rc, mc, inp, setup_hours_dict, Scaled(ratio),
                               stage_hours_dict)
        ELSE degreeworks_combine(cfg, rc, mc, inp, setup_hours_dict,
                                 pve_hours_dict, stage_hours_dict)

\* the PVE stage is recorded when the PVE role hours sum to more than zero
degreeworks_totals(cfg, rc, mc, inp, setup_hours_dict, pve_hours_dict, stage_hours_dict, total_pve_hours) ==
    degreeworks_cap(cfg, rc, mc, inp, setup_hours_dict, pve_hours_dict,
        IF Gt(total_pve_hours, Zero)
        THEN DSet(stage_hours_dict, PVEStage, total_pve_hours)
        ELSE stage_hours_dict,
        total_pve_hours)

\* the loop over the tiers: the Setup tier counts once, a PVE tier takes its
\* share of the PVE count
degreeworks_tiers(cfg, rc, mc, inp, tiers, pve_count) ==
    LET IsSetup(tier) ==
            tier_kind(tier.name) = "setup" /\ inp.degreeworks_include_setup
        IsPVE(tier) ==
            tier_kind(tier.name) \in {"simple", "standard", "complex"}
            /\ Gt(pve_count, Zero)
        setup_hours(tier) ==
            IF tier.scale_by_size
            THEN FMul(FMul(Num(1), tier.unit_hours),
                      DGet(cfg.size_multipliers, inp.size_band, One))
            ELSE FMul(Num(1), tier.unit_hours)
        mix(tier) ==
            CASE tier_kind(tier.name) = "simple" -> inp.degreeworks_simple_pct
              [] tier_kind(tier.name) = "standard" -> inp.degreeworks_standard_pct
              [] OTHER -> inp.degreeworks_complex_pct
        Summed(setup_hours_dict, pve_hours_dict, stage_hours_dict) ==
            degreeworks_totals(cfg, rc, mc, inp, setup_hours_dict, pve_hours_dict,
                               stage_hours_dict, FSum(DValues(pve_hours_dict)))
    IN  Summed(Accumulate(<<>>, Flatten([i \in DOMAIN tiers |->
                    IF IsSetup(tiers[i])
                    THEN distribute(tiers[i], setup_hours(tiers[i])) ELSE <<>>])),
               Accumulate(<<>>, Flatten([i \in DOMAIN tiers |->
                    IF IsPVE(tiers[i])
                    THEN distribute(tiers[i],
                            FMul(FMul(pve_count, mix(tiers[i])), tiers[i].unit_hours))
                    ELSE <<>>])),
               Dict(Flatten([i \in DOMAIN tiers |->
                    IF IsSetup(tiers[i])
                    THEN << <<SetupStage, setup_hours(tiers[i])>> >> ELSE <<>>])))

calculate_degreeworks(cfg, rc, mc, inp) ==
    IF ~inp.include_degreeworks \/ get_package(cfg, "Degree Works") = <<>>
    THEN <<empty_stage_hours, <<>> >>
    ELSE degreeworks_tiers(cfg, rc, mc, inp,
                           get_package(cfg, "Degree Works")[1].tiers,
                           pve_count_of(inp))

(***************************************************************************)
(* orchestrator.py: N2SEstimator.  An Optional value is a sequence of at    *)
(* most one element: None is <<>>, a value x is <<x>>.                      *)
(***************************************************************************)
Some(x) == <<x>>

\* `stage_hours and role_hours`: a StageHours object is always true, a list
\* is true when it is not empty
Both(stage_hours, role_hours) ==
    stage_hours # None /\ role_hours # None /\ Len(role_hours[1]) > 0

TotalCost(role_hours) == FSum([i \in DOMAIN role_hours |-> role_hours[i].total_cost])

\* one add-on's contribution to a running total, when it is counted at all
AddDelivery(acc, stage_hours, role_hours) ==
    IF Both(stage_hours, role_hours)
    THEN FAdd(acc, FSum(DValues(stage_hours[1].delivery_hours)))
    ELSE acc

AddCost(acc, stage_hours, role_hours) ==
    IF Both(stage_hours, role_hours)
    THEN FAdd(acc, TotalCost(role_hours[1]))
    ELSE acc

calculate_totals(base, base_roles, ih, ir, rh, rr, dh, dr) ==
    LET Totals(total_presales_hours, total_delivery_hours, total_delivery_cost) ==
            [total_presales_hours |-> total_presales_hours,
             total_delivery_hours |-> total_delivery_hours,
             total_presales_cost |-> Zero,
             total_delivery_cost |-> total_delivery_cost,
             total_hours |-> FAdd(total_presales_hours, total_delivery_hours),
             total_cost |-> FAdd(Zero, total_delivery_cost)]
    IN  Totals(FSum(DValues(base.presales_hours)),
               FAdd(FSum(DValues(base.delivery_hours)),
                    AddDelivery(AddDelivery(AddDelivery(Zero, ih, ir), rh, rr), dh, dr)),
               FAdd(TotalCost(base_roles),
                    AddCost(AddCost(AddCost(Zero, ih, ir), rh, rr), dh, dr)))

\* the results object: the packages and the totals over them
EstimationResults(inp, base, base_roles, ih, ir, rh, rr, dh, dr, totals) ==
    [inputs |-> inp,
     base_n2s |-> base,
     base_role_hours |-> base_roles,
     integrations_hours |-> ih, integrations_role_hours |-> ir,
     reports_hours |-> rh, reports_role_hours |-> rr,
     degreeworks_hours |-> dh, degreeworks_role_hours |-> dr,
     total_presales_hours |-> totals.total_presales_hours,
     total_delivery_hours |-> totals.total_delivery_hours,
     total_presales_cost |-> totals.total_presales_cost,
     total_delivery_cost |-> totals.total_delivery_cost,
     total_hours |-> totals.total_hours,
     total_cost |-> totals.total_cost]

\* an add-on that is not included leaves its two results None
estimate_packages(inp, base, base_roles, i, r, d) ==
    LET ih == IF inp.include_integrations THEN Some(i[1]) ELSE None
        ir == IF inp.include_integrations THEN Some(i[2]) ELSE None
        rh == IF inp.include_reports THEN Some(r[1]) ELSE None
        rr == IF inp.include_reports THEN Some(r[2]) ELSE None
        dh == IF inp.include_degreeworks THEN Some(d[1]) ELSE None
        dr == IF inp.include_degreeworks THEN Some(d[2]) ELSE None
    IN  EstimationResults(inp, base, base_roles, ih, ir, rh, rr, dh, dr,
            calculate_totals(base, base_roles, ih, ir, rh, rr, dh, dr))

\* the role hours of the base package and the add-on packages
estimate_from_base(cfg, rc, mc, inp, base) ==
    estimate_packages(inp, base,
        calculate_role_hours_and_costs(cfg, rc, mc, base, inp),
        calculate_integrations(cfg, rc, mc, inp),
        calculate_reports(cfg, rc, mc, inp),
        calculate_degreeworks(cfg, rc, mc, inp))

estimate(cfg, rc, mc, inp) ==
    estimate_from_base(cfg, rc, mc, inp, estimate_base_n2s(cfg, inp))

\* a defect: the hours are summed over the priced roles, not over the stages
package_summary_from_roles(stage_hours, role_hours) ==
    IF Both(stage_hours, role_hours)
    THEN [hours |-> FSum([i \in DOMAIN role_hours[1] |-> role_hours[1][i].total_hours]),
          cost |-> TotalCost(role_hours[1]), enabled |-> TRUE]
    ELSE [hours |-> Zero, cost |-> Zero, enabled |-> FALSE]

package_summary(stage_hours, role_hours) ==
    IF Both(stage_hours, role_hours)
    THEN [hours |-> FSum(DValues(stage_hours[1].stage_hours)),
          cost |-> TotalCost(role_hours[1]), enabled |-> TRUE]
    ELSE [hours |-> Zero, cost |-> Zero, enabled |-> FALSE]

get_package_summaries(res) ==
    << <<"Base N2S", [hours |-> FSum(DValues(res.base_n2s.stage_hours)),
                      cost |-> TotalCost(res.base_role_hours),
                      enabled |-> TRUE]>>,
       <<"Integrations",
         package_summary(res.integrations_hours, res.integrations_role_hours)>>,
       <<"Reports", package_summary(res.reports_hours, res.reports_role_hours)>>,
       <<"Degree Works",
         package_summary(res.degreeworks_hours, res.degreeworks_role_hours)>> >>

(***************************************************************************)
(* validators.py: ConfigurationValidator.  A warning is recorded by its     *)
(* kind; stages are visited in the order of their first Role Mix row.       *)
(***************************************************************************)
RECURSIVE DistinctTo(_, _)
DistinctTo(xs, k) ==
    IF k = 0 THEN <<>>
    ELSE LET rest == DistinctTo(xs, k - 1)
         IN  IF \E i \in DOMAIN rest : rest[i] = xs[k] THEN rest
             ELSE Append(rest, xs[k])
Distinct(xs) == DistinctTo(xs, Len(xs))

role_mix_stages(cfg) == Distinct([i \in DOMAIN cfg.role_mix |-> cfg.role_mix[i].stage])

role_mix_total(cfg, stage) ==
    LET IsStage(rm) == rm.stage = stage
        stage_roles == Filter(cfg.role_mix, [idx \in DOMAIN cfg.role_mix |-> IsStage(cfg.role_mix[idx])])
    IN  FSum([i \in DOMAIN stage_roles |-> stage_roles[i].pct])

validate_stage_weights(cfg) ==
    ~OffOne(FSum([i \in DOMAIN cfg.stage_weights |-> cfg.stage_weights[i].weight]),
            Tol001)

validate_role_mix(cfg) ==
    \A i \in DOMAIN role_mix_stages(cfg) :
        ~OffOne(role_mix_total(cfg, role_mix_stages(cfg)[i]), Tol05)

validate_delivery_mix(cfg) ==
    \A i \in DOMAIN cfg.delivery_mix :
        ~OffOne(FAdd(FAdd(cfg.delivery_mix[i].onshore_pct,
                          cfg.delivery_mix[i].offshore_pct),
                     cfg.delivery_mix[i].partner_pct), Tol001)

validate_addon_tiers(cfg) ==
    \A i \in DOMAIN cfg.addon_packages :
        \A j \in DOMAIN cfg.addon_packages[i].tiers :
            LET package == cfg.addon_packages[i]
                tier == package.tiers[j]
            IN  /\ ~OffOne(FSum(DValues(tier.role_distribution)), Tol01)
                /\ package.name = "Degree Works" =>
                    /\ tier.name \in {"Setup", "PVE Simple", "PVE Standard",
                                      "PVE Complex"}
                    /\ DHas(tier.role_distribution, DWS)
                    /\ Ge(DGet(tier.role_distribution, DWS, Zero), float(Pct(40)))

addon_roles(cfg) ==
    UNION {UNION {{cfg.addon_packages[i].tiers[j].role_distribution[k][1] :
                      k \in DOMAIN cfg.addon_packages[i].tiers[j].role_distribution} :
                  j \in DOMAIN cfg.addon_packages[i].tiers} :
           i \in DOMAIN cfg.addon_packages}

\* "Configuration warning: Stage '<stage>' role mix sums to <total>, should be
\* 1.0 (will be auto-normalized)", without the total
auto_normalized(stage) ==
    "Stage '" \o stage \o "' role mix should be 1.0 (will be auto-normalized)"

\* a defect: the warning is given only beyond the hard tolerance of 0.05
check_role_coverage_hard_band(cfg) ==
    LET all_roles == {cfg.role_mix[i].role : i \in DOMAIN cfg.role_mix}
                        \cup addon_roles(cfg)
        rates_roles == {cfg.rates[i].role : i \in DOMAIN cfg.rates}
        product_roles ==
            {cfg.product_role_map[i].role : i \in DOMAIN cfg.product_role_map}
        stages == role_mix_stages(cfg)
    IN  (IF all_roles \ rates_roles # {}
         THEN <<"Roles missing from Rates sheet">> ELSE <<>>)
        \o (IF all_roles \ product_roles # {}
            THEN <<"Roles missing from Product Role Map">> ELSE <<>>)
        \o Flatten([i \in DOMAIN stages |->
                IF OffOne(role_mix_total(cfg, stages[i]), Tol05)
                THEN <<auto_normalized(stages[i])>> ELSE <<>>])

check_role_coverage(cfg) ==
    LET all_roles == {cfg.role_mix[i].role : i \in DOMAIN cfg.role_mix}
                        \cup addon_roles(cfg)
        rates_roles == {cfg.rates[i].role : i \in DOMAIN cfg.rates}
        product_roles ==
            {cfg.product_role_map[i].role : i \in DOMAIN cfg.product_role_map}
        stages == role_mix_stages(cfg)
    IN  (IF all_roles \ rates_roles # {}
         THEN <<"Roles missing from Rates sheet">> ELSE <<>>)
        \o (IF all_roles \ product_roles # {}
            THEN <<"Roles missing from Product Role Map">> ELSE <<>>)
        \o Flatten([i \in DOMAIN stages |->
                IF OffOne(role_mix_total(cfg, stages[i]), Tol01)
                THEN <<auto_normalized(stages[i])>> ELSE <<>>])

\* role mix by stage and role; a later row of the same stage and role wins
get_current_role_mix(cfg) ==
    Dict([i \in DOMAIN cfg.role_mix |->
            <<<<cfg.role_mix[i].stage, cfg.role_mix[i].role>>, cfg.role_mix[i].pct>>])

DriftThreshold == float(Pct(10))    \* the default threshold 0.10

\* a defect: a drift equal to the threshold is reported as well
check_methodology_drift_inclusive(cfg, baseline, threshold) ==
    LET current == get_current_role_mix(cfg)
    IN  Flatten([i \in DOMAIN baseline |->
            IF Ge(QAbs(FSub(DGet(current, baseline[i][1], Zero), baseline[i][2])),
                  threshold)
            THEN <<"Methodology drift warning">> ELSE <<>>])

check_methodology_drift(cfg, baseline, threshold) ==
    LET current == get_current_role_mix(cfg)
    IN  Flatten([i \in DOMAIN baseline |->
            IF Gt(QAbs(FSub(DGet(current, baseline[i][1], Zero), baseline[i][2])),
                  threshold)
            THEN <<"Methodology drift warning">> ELSE <<>>])

validate_all(cfg, baseline) ==
    (IF validate_stage_weights(cfg) THEN <<>> ELSE <<"Stage Weights Error">>)
    \o (IF validate_role_mix(cfg) THEN <<>> ELSE <<"Role Mix Error">>)
    \o (IF validate_delivery_mix(cfg) THEN <<>> ELSE <<"Delivery Mix Error">>)
    \o (IF validate_addon_tiers(cfg) THEN <<>> ELSE <<"Add-on Tiers Error">>)
    \o check_role_coverage(cfg)
    \o check_methodology_drift(cfg, baseline, DriftThreshold)

(***************************************************************************)
(* The workbooks an estimator is constructed from.  The reference workbook  *)
(* keeps the delivery mix, add-on catalog and product role map of the       *)
(* default workbook, condenses its stage tables to six stages and quotes    *)
(* its rates in units of 25 (rounded); the other workbooks differ from it   *)
(* in one or two tables each.                                               *)
(***************************************************************************)
ReferenceWorkbook ==
  [ DefaultWorkbook EXCEPT
    !.stage_weights = <<
        SW("Discovery", "Start", Pct(10)), SW("Discovery", "Prepare", Pct(10)),
        SW("Build", "Sprint 0", Pct(10)), SW("Build", "Plan", Pct(10)),
        SW("Build", "Configure", Pct(30)), SW("Build", "Test", Pct(30)) >>,
    !.stages_presales = <<
        SP("Start", Pct(60)), SP("Prepare", Pct(30)), SP("Sprint 0", Zero),
        SP("Plan", Zero), SP("Configure", Zero), SP("Test", Zero) >>,
    !.activities = <<
        Act("Start", "Discovery Planning", Pct(60), TRUE),
        Act("Start", "Initial Assessment", Pct(40), FALSE) >>,
    !.role_mix =
        StageMix("Start", << <<PM, 50>>, <<SA, 50>> >>)
     \o StageMix("Prepare", << <<SA, 50>>, <<FC, 50>> >>)
     \o StageMix("Sprint 0", << <<PM, 25>>, <<FC, 75>> >>)
     \o StageMix("Plan", << <<PM, 50>>, <<FC, 50>> >>)
     \o StageMix("Configure", << <<TA, 50>>, <<FC, 25>>, <<IE, 25>> >>)
     \o StageMix("Test", << <<QA, 50>>, <<FC, 50>> >>),
    !.rates = <<
        Rate(PM, "US", 6, 3, 5), Rate(SA, "US", 7, 4, 6),
        Rate(FC, "US", 6, 3, 5), Rate(QA, "US", 6, 3, 4),
        Rate(IE, "US", 5, 3, 4), Rate(TA, "US", 7, 3, 5),
        Rate(IL, "US", 7, 4, 6), Rate(RC, "US", 7, 3, 5),
        Rate(EE, "US", 6, 3, 5), Rate(DWS, "US", 6, 3, 5),
        Rate(PM, "UK", 7, 3, 5), Rate(SA, "UK", 8, 4, 6),
        Rate(FC, "UK", 7, 4, 6), Rate(QA, "UK", 6, 3, 5),
        Rate(IE, "UK", 6, 3, 4), Rate(TA, "UK", 7, 4, 6),
        Rate(IL, "UK", 8, 4, 6), Rate(RC, "UK", 7, 4, 5),
        Rate(EE, "UK", 7, 4, 5), Rate(DWS, "UK", 6, 3, 5) >> ]

\* stage weights that sum to 1.0005, inside the loader's tolerance, in a
\* methodology without the stages Plan and Configure; the workbook has no
\* Product Role Map sheet
WeightsHighWorkbook ==
  [ ReferenceWorkbook EXCEPT
    !.product_role_map = <<>>,
    !.stage_weights = <<
        SW("Discovery", "Start", Pct(10)), SW("Discovery", "Prepare", Pct(10)),
        SW("Build", "Sprint 0", Pct(20)), SW("Build", "Test", Q(1201, 2000)) >>,
    !.role_mix =
        StageMix("Start", << <<PM, 50>>, <<SA, 50>> >>)
     \o StageMix("Prepare", << <<SA, 50>>, <<FC, 50>> >>)
     \o StageMix("Sprint 0", << <<PM, 25>>, <<FC, 75>> >>)
     \o StageMix("Test", << <<QA, 50>>, <<FC, 50>> >>) ]

\* donor stages that together weigh 0.045, less than the largest uplift, and
\* an Integrations tier whose role distribution sums to 1.005, inside the
\* tolerance of AddOnTier; the Delivery Mix sheet has no global row
SmallDonorsWorkbook ==
  [ ReferenceWorkbook EXCEPT
    !.delivery_mix = <<
        DM(PM, Pct(80), Pct(15), Pct(5)), DM(SA, Pct(75), Pct(20), Pct(5)) >>,
    !.stage_weights[4] = SW("Build", "Plan", Mil(15)),
    !.stage_weights[5] = SW("Build", "Configure", Mil(30)),
    !.stage_weights[6] = SW("Build", "Test", Mil(655)),
    !.addon_packages[1].tiers[1] =
        Tier("Simple", Num(80),
             << <<IE, Mil(605)>>, <<TA, Pct(25)>>, <<QA, Pct(10)>>, <<PM, Pct(5)>> >>,
             FALSE) ]

\* stage weights that sum to 0.9
WeightsLowWorkbook ==
  [ ReferenceWorkbook EXCEPT !.stage_weights[6] = SW("Build", "Test", Pct(20)) ]

\* stage weights that sum to 1.02
WeightsNearWorkbook ==
  [ ReferenceWorkbook EXCEPT !.stage_weights[6] = SW("Build", "Test", Pct(32)) ]

\* a role mix that sums to 1.2 for the stage Start
RoleMixOffWorkbook ==
  [ ReferenceWorkbook EXCEPT !.role_mix[2] = RM("Start", SA, Pct(70)) ]

\* a role mix that sums to 1.03 for the stage Start, which has two rows for
\* the Solution Architect
RoleMixNearWorkbook ==
  [ ReferenceWorkbook EXCEPT
    !.role_mix = ReferenceWorkbook.role_mix \o << RM("Start", SA, Pct(3)) >> ]

\* a global delivery mix that sums to 1.1
DeliveryMixOffWorkbook ==
  [ ReferenceWorkbook EXCEPT
    !.delivery_mix[1] = DM(NoRole, Pct(70), Pct(20), Pct(20)) ]

\* an add-on tier whose role distribution sums to 1.1
TierOffWorkbook ==
  [ ReferenceWorkbook EXCEPT
    !.addon_packages[1] =
        Pkg("Integrations", <<
            Tier("Simple", Num(80),
                 Dist(<< <<IE, 70>>, <<TA, 25>>, <<QA, 10>>, <<PM, 5>> >>), FALSE) >>) ]

\* a workbook whose fractions are all binary fractions; it has no rate card
\* for the QA Lead, no UK rate card for the Functional Consultant and no
\* Stages row for the stage Test
BinaryWorkbook ==
  [ ReferenceWorkbook EXCEPT
    !.rates = <<
        Rate(PM, "US", 6, 3, 5), Rate(SA, "US", 7, 4, 6),
        Rate(FC, "US", 6, 3, 5), Rate(IE, "US", 5, 3, 4),
        Rate(TA, "US", 7, 3, 5), Rate(IL, "US", 7, 4, 6),
        Rate(RC, "US", 7, 3, 5), Rate(EE, "US", 6, 3, 5),
        Rate(DWS, "US", 6, 3, 5), Rate(PM, "UK", 7, 3, 5),
        Rate(SA, "UK", 8, 4, 6), Rate(IE, "UK", 6, 3, 4),
        Rate(TA, "UK", 7, 4, 6), Rate(IL, "UK", 8, 4, 6),
        Rate(RC, "UK", 7, 4, 5), Rate(EE, "UK", 7, 4, 5),
        Rate(DWS, "UK", 6, 3, 5) >>,
    !.stage_weights = <<
        SW("Discovery", "Start", Q(1, 8)), SW("Discovery", "Prepare", Q(1, 8)),
        SW("Build", "Sprint 0", Q(1, 8)), SW("Build", "Plan", Q(1, 8)),
        SW("Build", "Configure", Q(1, 4)), SW("Build", "Test", Q(1, 4)) >>,
    !.stages_presales = <<
        SP("Start", Q(1, 2)), SP("Prepare", Q(1, 4)), SP("Sprint 0", Zero),
        SP("Plan", Zero), SP("Configure", Zero) >>,
    !.activities = <<
        Act("Start", "Discovery Planning", Q(3, 4), TRUE),
        Act("Start", "Initial Assessment", Q(1, 4), FALSE) >>,
    !.delivery_mix = <<
        DM(NoRole, Q(1, 2), Q(1, 4), Q(1, 4)),
        DM(PM, Q(3, 4), Q(1, 8), Q(1, 8)) >> ]

WorkbookNames ==
    {"reference", "weights high", "small donors", "weights low", "weights near",
     "role mix off", "role mix near", "delivery mix off", "tier off", "binary"}

Workbook(name) ==
    CASE name = "reference" -> ReferenceWorkbook
      [] name = "weights high" -> WeightsHighWorkbook
      [] name = "small donors" -> SmallDonorsWorkbook
      [] name = "weights low" -> WeightsLowWorkbook
      [] name = "weights near" -> WeightsNearWorkbook
      [] name = "role mix off" -> RoleMixOffWorkbook
      [] name = "role mix near" -> RoleMixNearWorkbook
      [] name = "delivery mix off" -> DeliveryMixOffWorkbook
      [] name = "tier off" -> TierOffWorkbook
      [] OTHER -> BinaryWorkbook

(***************************************************************************)
(* The keyword arguments EstimationInputs is constructed with.              *)
(***************************************************************************)
Products == {"Banner", "Colleague", "Other"}
DeliveryTypes == {"Net New", "Modernization", "Upgrade"}
Uplifts == {Zero, Pct(2), Pct(5)}
Counts == 0 .. MaxCount

KwBase ==
    {[product |-> p, delivery_type |-> t, sprint0_uplift_pct |-> u] :
        p \in Products, t \in DeliveryTypes, u \in Uplifts}

KwSize ==
    {[size_band |-> b, maturity_factor |-> m, sprint0_uplift_pct |-> u] :
        b \in {"Small", "Large", "Huge"}, m \in {<<1, 2>>, Num(2)},
        u \in {Zero, Pct(5)}}

KwOutOfRange ==
    {[maturity_factor |-> Num(3)], [sprint0_uplift_pct |-> Pct(10)],
     [degreeworks_catalog_years |-> 0], [reports_simple_pct |-> Pct(120)]}

KwAddOns ==
    {[product |-> p, include_integrations |-> i, include_reports |-> r] :
        p \in Products, i \in BOOLEAN, r \in BOOLEAN}
    \cup {[include_integrations |-> TRUE, integrations_count |-> n, locale |-> l] :
            n \in Counts, l \in {"US", "UK", "FR"}}
    \cup {[include_reports |-> TRUE, reports_count |-> n, size_band |-> "Large"] :
            n \in Counts}

CapHours == {None, Num(-50), Zero, Num(200), Num(350), Num(1000)}

KwDegreeWorks ==
    {[include_degreeworks |-> TRUE, degreeworks_majors |-> n,
      degreeworks_include_setup |-> s, degreeworks_cap_hours |-> c] :
        n \in {0, 5, 100}, s \in BOOLEAN, c \in CapHours}
    \cup {[include_degreeworks |-> TRUE, degreeworks_majors |-> 100,
           degreeworks_cap_enabled |-> e, size_band |-> b, product |-> p] :
            e \in BOOLEAN, b \in {"Medium", "Large", "Huge"},
            p \in {"Banner", "Colleague"}}
    \cup {[include_degreeworks |-> TRUE, degreeworks_use_pve_calculator |-> FALSE,
           degreeworks_pve_count |-> n, degreeworks_minors |-> 3] : n \in Counts}
    \cup {[include_degreeworks |-> TRUE, degreeworks_minors |-> 1,
           degreeworks_certificates |-> n, degreeworks_catalog_years |-> y] :
            n \in Counts, y \in {1, 2}}
    \cup {[include_degreeworks |-> TRUE, degreeworks_majors |-> 60,
           degreeworks_minors |-> 40, degreeworks_certificates |-> 10,
           degreeworks_concentrations |-> 15, degreeworks_catalog_years |-> 1,
           size_band |-> b, degreeworks_cap_enabled |-> e] :
            b \in {"Medium", "Large"}, e \in BOOLEAN}

\* tier mixes: a triple passed whole, or only some of its fields
KwTierMix ==
    {[include_integrations |-> TRUE, integrations_simple_pct |-> a,
      integrations_standard_pct |-> Pct(30), integrations_complex_pct |-> b] :
        a \in {Pct(50), Pct(90)}, b \in {Pct(10), Pct(20)}}
    \cup {[include_integrations |-> TRUE, integrations_simple_pct |-> a] :
            a \in {Pct(60), Pct(90)}}
    \cup {[include_reports |-> TRUE, reports_standard_pct |-> a] :
            a \in {Pct(35), Zero}}
    \cup {[include_reports |-> TRUE, reports_complex_pct |-> a] :
            a \in {Pct(15), Pct(50)}}
    \cup {[include_degreeworks |-> TRUE, degreeworks_majors |-> 5,
           degreeworks_simple_pct |-> a, degreeworks_standard_pct |-> b] :
            a \in {Pct(50), One}, b \in {Pct(35), One}}
    \cup {[include_degreeworks |-> TRUE, degreeworks_majors |-> 5,
           degreeworks_standard_pct |-> Pct(25), degreeworks_complex_pct |-> a] :
            a \in {Pct(25), Pct(15)}}

Kwargs == KwBase \cup KwSize \cup KwOutOfRange \cup KwAddOns \cup KwDegreeWorks
            \cup KwTierMix

(***************************************************************************)
(* pricing.py and orchestrator.py: the summaries by role and by stage;      *)
(* addons.py: the tier breakdown.                                           *)
(***************************************************************************)
\* the totals of the rows whose field `by` is `key`, each added up from 0.0
\* in the order of the rows; the blended rate is recomputed from the totals
summary_totals(mine, role, stage) ==
    LET Rated(total_hours, total_cost) ==
            [role |-> role, stage |-> stage, total_hours |-> total_hours,
             onshore_hours |-> FSum([i \in DOMAIN mine |-> mine[i].onshore_hours]),
             offshore_hours |-> FSum([i \in DOMAIN mine |-> mine[i].offshore_hours]),
             partner_hours |-> FSum([i \in DOMAIN mine |-> mine[i].partner_hours]),
             onshore_cost |-> FSum([i \in DOMAIN mine |-> mine[i].onshore_cost]),
             offshore_cost |-> FSum([i \in DOMAIN mine |-> mine[i].offshore_cost]),
             partner_cost |-> FSum([i \in DOMAIN mine |-> mine[i].partner_cost]),
             total_cost |-> total_cost,
             blended_rate |->
                IF Gt(total_hours, Zero) THEN FDiv(total_cost, total_hours)
                ELSE Zero]
    IN  Rated(FSum([i \in DOMAIN mine |-> mine[i].total_hours]),
              FSum([i \in DOMAIN mine |-> mine[i].total_cost]))

\* one summary row per role, in the order the roles first appear
role_summaries(role_hours_list) ==
    LET roles == Distinct([i \in DOMAIN role_hours_list |-> role_hours_list[i].role])
        Of(role) ==
            Filter(role_hours_list,
                   [i \in DOMAIN role_hours_list |-> role_hours_list[i].role = role])
    IN  [k \in DOMAIN roles |-> summary_totals(Of(roles[k]), roles[k], "All Stages")]

\* a defect: the summaries are returned in the order the roles first appear
summarize_by_role_unsorted(role_hours_list) == role_summaries(role_hours_list)

summarize_by_role(role_hours_list) == SortByCost(role_summaries(role_hours_list))

\* one summary row per stage, in the order the stages first appear
summarize_by_stage(role_hours_list) ==
    LET stages == Distinct([i \in DOMAIN role_hours_list |-> role_hours_list[i].stage])
        Of(stage) ==
            Filter(role_hours_list,
                   [i \in DOMAIN role_hours_list |-> role_hours_list[i].stage = stage])
    IN  [k \in DOMAIN stages |-> summary_totals(Of(stages[k]), "All Roles", stages[k])]

\* `if results.x_role_hours:` is false for None and for an empty list
OrEmpty(optional) == IF optional = None THEN <<>> ELSE optional[1]

get_role_summary(res) ==
    summarize_by_role(res.base_role_hours \o OrEmpty(res.integrations_role_hours)
                        \o OrEmpty(res.reports_role_hours))

get_stage_summary(res) == summarize_by_stage(res.base_role_hours)

\* the tier mixes get_tier_breakdown reads from the inputs
breakdown_mixes(package_name, inp, pve_count) ==
    CASE package_name = "Integrations" ->
            << <<"Simple", inp.integrations_simple_pct>>,
               <<"Standard", inp.integrations_standard_pct>>,
               <<"Complex", inp.integrations_complex_pct>> >>
      [] package_name = "Reports" ->
            << <<"Simple", inp.reports_simple_pct>>,
               <<"Standard", inp.reports_standard_pct>>,
               <<"Complex", inp.reports_complex_pct>> >>
      [] OTHER ->
            (IF inp.degreeworks_include_setup THEN << <<"Setup", One>> >> ELSE <<>>)
            \o (IF Gt(pve_count, Zero)
                THEN << <<"PVE Simple", inp.degreeworks_simple_pct>>,
                        <<"PVE Standard", inp.degreeworks_standard_pct>>,
                        <<"PVE Complex", inp.degreeworks_complex_pct>> >>
                ELSE <<>>)

\* the count of a tier: 0 or 1 for the Degree Works Setup tier, the share of
\* the PVE count for a PVE tier, the share of the item count otherwise
breakdown_count(package_name, tier, tier_mix, count, pve_count, inp) ==
    IF package_name = "Degree Works"
    THEN CASE tier_kind(tier.name) = "setup" ->
                IF inp.degreeworks_include_setup THEN Num(1) ELSE Num(0)
           [] tier_kind(tier.name) \in {"simple", "standard", "complex"} ->
                FMul(pve_count, tier_mix)
           [] OTHER -> Num(0)
    ELSE FMul(Num(count), tier_mix)

\* a defect: the breakdown never scales a tier by the size band
breakdown_row_unscaled(cfg, tier, tier_mix, tier_count, inp) ==
    [count |-> tier_count, unit_hours |-> tier.unit_hours,
     total_hours |-> FMul(tier_count, tier.unit_hours),
     mix_percentage |-> tier_mix]

breakdown_row(cfg, tier, tier_mix, tier_count, inp) ==
    [count |-> tier_count, unit_hours |-> tier.unit_hours,
     total_hours |->
        IF tier.scale_by_size
        THEN FMul(FMul(tier_count, tier.unit_hours),
                  DGet(cfg.size_multipliers, inp.size_band, One))
        ELSE FMul(tier_count, tier.unit_hours),
     mix_percentage |-> tier_mix]

breakdown_of(cfg, package_name, tiers, tier_mixes, count, pve_count, inp) ==
    Dict([i \in DOMAIN tiers |->
            <<tiers[i].name,
              breakdown_row(cfg, tiers[i], DGet(tier_mixes, tiers[i].name, Zero),
                  breakdown_count(package_name, tiers[i],
                                  DGet(tier_mixes, tiers[i].name, Zero),
                                  count, pve_count, inp),
                  inp)>>])

get_tier_breakdown(cfg, package_name, inp) ==
    LET enabled ==
            CASE package_name = "Integrations" -> inp.include_integrations
              [] package_name = "Reports" -> inp.include_reports
              [] OTHER -> inp.include_degreeworks
        count ==
            CASE package_name = "Integrations" -> inp.integrations_count
              [] package_name = "Reports" -> inp.reports_count
              [] OTHER -> 0
    IN  IF get_package(cfg, package_name) = <<>> THEN <<>>
        ELSE IF package_name \notin {"Integrations", "Reports", "Degree Works"}
        THEN <<>>
        ELSE IF ~enabled THEN <<>>
        ELSE IF package_name = "Degree Works"
                /\ ~(inp.degreeworks_include_setup \/ Gt(pve_count_of(inp), Zero))
        THEN <<>>
        ELSE IF package_name # "Degree Works" /\ count <= 0 THEN <<>>
        ELSE breakdown_of(cfg, package_name,
                          get_package(cfg, package_name)[1].tiers,
                          breakdown_mixes(package_name, inp, pve_count_of(inp)),
                          count, pve_count_of(inp), inp)

(***************************************************************************)
(* The state machine: an estimator is constructed from a workbook and an    *)
(* inputs object from keyword arguments, in either order; the estimator     *)
(* then serves estimate, summary and validation calls.                      *)
(***************************************************************************)
Init ==
    /\ prec = 0
    /\ workbook = ""
    /\ load_status = ""
    /\ config = None
    /\ rate_cache = <<>>
    /\ mix_cache = <<>>
    /\ baseline_role_mix = <<>>
    /\ passed = {}
    /\ inputs = None
    /\ input_status = ""
    /\ results = None
    /\ summaries = None
    /\ warnings = None
    /\ pricing_log = <<>>
    /\ derived = None
    /\ earlier_estimates = 0

InitFl ==
    /\ prec = Prec
    /\ workbook = ""
    /\ load_status = ""
    /\ config = None
    /\ rate_cache = <<>>
    /\ mix_cache = <<>>
    /\ baseline_role_mix = <<>>
    /\ passed = {}
    /\ inputs = None
    /\ input_status = ""
    /\ results = None
    /\ summaries = None
    /\ warnings = None
    /\ pricing_log = <<>>
    /\ derived = None
    /\ earlier_estimates = 0

\* N2SEstimator(workbook_path): load the configuration, build the engines
LoadConfiguration ==
    /\ load_status = ""
    /\ \E name \in WorkbookNames :
        \E loaded \in {load_configuration(Workbook(name))} :
            /\ workbook' = name
            /\ load_status' = IF loaded.error = "" THEN "ok" ELSE loaded.error
            /\ config' = loaded.value
            /\ rate_cache' =
                IF loaded.error = "" THEN build_rate_cache(loaded.value) ELSE <<>>
            /\ mix_cache' =
                IF loaded.error = "" THEN build_delivery_mix_cache(loaded.value)
                ELSE <<>>
            /\ baseline_role_mix' =
                IF loaded.error = "" THEN get_current_role_mix(loaded.value)
                ELSE <<>>
    /\ results' = None
    /\ summaries' = None
    /\ derived' = None
    /\ earlier_estimates' = 0
    /\ warnings' = None
    /\ UNCHANGED <<prec, passed, inputs, input_status, pricing_log>>

\* EstimationInputs(**kw): the inputs of the request
ConstructInputs ==
    /\ input_status = ""
    /\ \E kw \in Kwargs :
        \E built \in {EstimationInputs(kw)} :
            /\ passed' = DOMAIN kw
            /\ input_status' = IF built.error = "" THEN "ok" ELSE built.error
            /\ inputs' = built.value
    /\ results' = None
    /\ summaries' = None
    /\ derived' = None
    /\ UNCHANGED <<prec, workbook, load_status, config, rate_cache, mix_cache,
                   baseline_role_mix, warnings, pricing_log,
                   earlier_estimates>>

\* a defect: the working weights of the Sprint 0 uplift are written back
\* into the stage weights of the configuration
EstimateKeepingUplift ==
    /\ load_status = "ok"
    /\ input_status = "ok"
    /\ results' = Some(estimate(config, rate_cache, mix_cache, inputs))
    /\ config' =
        [config EXCEPT !.stage_weights =
            [i \in DOMAIN config.stage_weights |->
                [config.stage_weights[i] EXCEPT !.weight =
                    DGet(uplifted_weights(config, inputs),
                         config.stage_weights[i].stage, Zero)]]]
    /\ summaries' = None
    /\ derived' = None
    /\ UNCHANGED <<prec, workbook, load_status, rate_cache, mix_cache,
                   baseline_role_mix, passed, inputs, input_status, warnings,
                   pricing_log, earlier_estimates>>

\* estimator.estimate(inputs)
Estimate ==
    /\ load_status = "ok"
    /\ input_status = "ok"
    /\ results' = Some(estimate(config, rate_cache, mix_cache, inputs))
    /\ summaries' = None
    /\ derived' = None
    /\ UNCHANGED <<prec, workbook, load_status, config, rate_cache, mix_cache,
                   baseline_role_mix, passed, inputs, input_status, warnings,
                   pricing_log, earlier_estimates>>

\* estimator.get_package_summaries(results)
GetPackageSummaries ==
    /\ results # None
    /\ summaries' = Some(get_package_summaries(results[1]))
    /\ UNCHANGED <<prec, workbook, load_status, config, rate_cache, mix_cache,
                   baseline_role_mix, passed, inputs, input_status, results,
                   warnings, pricing_log, derived, earlier_estimates>>

\* estimator.get_validation_warnings()
GetValidationWarnings ==
    /\ load_status = "ok"
    /\ warnings' = Some(validate_all(config, baseline_role_mix))
    /\ UNCHANGED <<prec, workbook, load_status, config, rate_cache, mix_cache,
                   baseline_role_mix, passed, inputs, input_status, results,
                   summaries, pricing_log, derived, earlier_estimates>>

Next ==
    \/ LoadConfiguration
    \/ ConstructInputs
    \/ Estimate
    \/ GetPackageSummaries
    \/ GetValidationWarnings

\* exact arithmetic
Spec == Init /\ [][Next]_vars

\* floating-point arithmetic with a Prec-bit significand
SpecFl == InitFl /\ [][Next]_vars

(***************************************************************************)
(* Pricing overrides.  The arguments of the override calls.                 *)
(***************************************************************************)
RateRow(role, locale, on, off, pa) ==
    [role |-> role, locale |-> locale, onshore |-> Num(on),
     offshore |-> Num(off), partner |-> Num(pa)]
MixRow(role, on, off, pa) ==
    [role |-> role, onshore_pct |-> on, offshore_pct |-> off, partner_pct |-> pa]

\* one list replaces a rate card of the workbook; the other adds a card the
\* workbook does not have and names its key twice
RateOverrides ==
    { << RateRow(PM, "US", 8, 4, 6) >>,
      << RateRow(QA, "FR", 4, 2, 3), RateRow(QA, "FR", 5, 2, 3) >> }

MixOverrides ==
    { [global_mix |-> Some(MixRow(NoRole, Pct(60), Pct(30), Pct(10))),
       role_overrides |-> << MixRow(TA, Pct(85), Pct(10), Pct(5)) >>],
      [global_mix |-> None,
       role_overrides |-> << MixRow(PM, Pct(50), Pct(25), Pct(25)) >>] }

PricingCall(op, rates, global_mix, role_overrides) ==
    [op |-> op, rates |-> rates, global_mix |-> global_mix,
     role_overrides |-> role_overrides]

\* estimator.apply_rate_overrides(overrides)
ApplyRateOverrides ==
    /\ load_status = "ok"
    /\ Len(pricing_log) < MaxPricingCalls
    /\ \E overrides \in RateOverrides :
        /\ rate_cache' = apply_rate_overrides(rate_cache, overrides)
        /\ pricing_log' =
            Append(pricing_log, PricingCall("rates", overrides, None, <<>>))
    /\ UNCHANGED <<prec, workbook, load_status, config, mix_cache,
                   baseline_role_mix, passed, inputs, input_status, results,
                   summaries, warnings, derived, earlier_estimates>>

\* estimator.apply_delivery_mix_overrides(global_mix, role_overrides)
ApplyDeliveryMixOverrides ==
    /\ load_status = "ok"
    /\ Len(pricing_log) < MaxPricingCalls
    /\ \E mix \in MixOverrides :
        /\ mix_cache' =
            apply_delivery_mix_overrides(mix_cache, mix.global_mix,
                                         mix.role_overrides)
        /\ pricing_log' =
            Append(pricing_log,
                   PricingCall("mix", <<>>, mix.global_mix, mix.role_overrides))
    /\ UNCHANGED <<prec, workbook, load_status, config, rate_cache,
                   baseline_role_mix, passed, inputs, input_status, results,
                   summaries, warnings, derived, earlier_estimates>>

\* estimator.reset_pricing_overrides()
ResetPricingOverrides ==
    /\ load_status = "ok"
    /\ Len(pricing_log) < MaxPricingCalls
    /\ rate_cache' = reset_from_config(config).rate_cache
    /\ mix_cache' = reset_from_config(config).mix_cache
    /\ pricing_log' = Append(pricing_log, PricingCall("reset", <<>>, None, <<>>))
    /\ UNCHANGED <<prec, workbook, load_status, config, baseline_role_mix,
                   passed, inputs, input_status, results, summaries, warnings,
                   derived, earlier_estimates>>

\* the inputs of the pricing sessions: one integration in each locale
PricingInputs ==
    /\ passed = {"include_integrations", "integrations_count", "locale"}
    /\ input_status = "ok"
    /\ inputs.integrations_count = 1

NextPricing ==
    \/ LoadConfiguration
    \/ (ConstructInputs /\ PricingInputs')
    \/ ApplyRateOverrides
    \/ ApplyDeliveryMixOverrides
    \/ ResetPricingOverrides
    \/ Estimate

\* exact arithmetic, with the pricing override calls
SpecPricing == Init /\ [][NextPricing]_vars

(***************************************************************************)
(* Summaries and breakdowns of an estimate.                                 *)
(***************************************************************************)
Derived(op, value) == [op |-> op, value |-> value]

\* estimator.get_role_summary(results)
GetRoleSummary ==
    /\ results # None
    /\ derived' = Some(Derived("get_role_summary", get_role_summary(results[1])))
    /\ UNCHANGED <<prec, workbook, load_status, config, rate_cache, mix_cache,
                   baseline_role_mix, passed, inputs, input_status, results,
                   summaries, warnings, pricing_log, earlier_estimates>>

\* estimator.get_stage_summary(results)
GetStageSummary ==
    /\ results # None
    /\ derived' = Some(Derived("get_stage_summary", get_stage_summary(results[1])))
    /\ UNCHANGED <<prec, workbook, load_status, config, rate_cache, mix_cache,
                   baseline_role_mix, passed, inputs, input_status, results,
                   summaries, warnings, pricing_log, earlier_estimates>>

\* estimator.addons.get_tier_breakdown(package_name, results.inputs)
GetTierBreakdown ==
    /\ results # None
    /\ \E package_name \in {"Integrations", "Reports", "Degree Works"} :
        derived' = Some(Derived(package_name,
                                get_tier_breakdown(config, package_name, inputs)))
    /\ UNCHANGED <<prec, workbook, load_status, config, rate_cache, mix_cache,
                   baseline_role_mix, passed, inputs, input_status, results,
                   summaries, warnings, pricing_log, earlier_estimates>>

\* the application builds the inputs of its next request: the caller lets go
\* of the inputs and of what was computed from them
NextRequest ==
    /\ input_status # ""
    /\ results # None => earlier_estimates < MaxEarlierEstimates
    /\ passed' = {}
    /\ inputs' = None
    /\ input_status' = ""
    /\ results' = None
    /\ summaries' = None
    /\ derived' = None
    /\ earlier_estimates' =
        IF results # None THEN earlier_estimates + 1 ELSE earlier_estimates
    /\ UNCHANGED <<prec, workbook, load_status, config, rate_cache, mix_cache,
                   baseline_role_mix, warnings, pricing_log>>

NextSummaries ==
    \/ LoadConfiguration
    \/ ConstructInputs
    \/ Estimate
    \/ GetRoleSummary
    \/ GetStageSummary
    \/ GetTierBreakdown

\* exact arithmetic, with the summaries and breakdowns of the results
SpecSummaries == Init /\ [][NextSummaries]_vars

NextRequests ==
    \/ LoadConfiguration
    \/ ConstructInputs
    \/ Estimate
    \/ NextRequest

\* exact arithmetic, with one request after another on the same estimator
SpecRequests == Init /\ [][NextRequests]_vars

(***************************************************************************)
(* Properties.  Estimated is the state after an estimate() call; res is    *)
(* the EstimationResults it returned.                                       *)
(***************************************************************************)
Estimated == results # None
res == results[1]
Total(dict) == FSum(DValues(dict))

\* the three hour figures of base stage number i
StageSplit(i) ==
    [total |-> res.base_n2s.stage_hours[i][2],
     presales |-> res.base_n2s.presales_hours[i][2],
     delivery |-> res.base_n2s.delivery_hours[i][2]]

BaseStages == DOMAIN res.base_n2s.stage_hours

\* the relative error two roundings to a significand of prec bits can leave
RoundingSlack == IF prec = 0 THEN Zero ELSE Q(4, 2^prec)

(* C1, as stated: for every stage the presales and delivery hours returned  *)
(* by estimate_base_n2s add up to the stage hours exactly, and              *)
(* 0 <= presales <= stage hours.                                            *)
C1_SplitAddsUpExactly ==
    Estimated =>
        \A i \in BaseStages :
            /\ FAdd(StageSplit(i).presales, StageSplit(i).delivery)
                    = StageSplit(i).total
            /\ Le(Zero, StageSplit(i).presales)
            /\ Le(StageSplit(i).presales, StageSplit(i).total)

(* C1, amended: for every stage, presales + delivery differs from the stage *)
(* hours by at most the rounding of the subtraction and the addition (a     *)
(* relative error of 4 / 2^p for a p-bit significand), and                  *)
(* 0 <= presales <= stage hours.                                            *)
C1_SplitAddsUpWithinRounding ==
    Estimated =>
        \A i \in BaseStages :
            /\ Le(QAbs(QSub(FAdd(StageSplit(i).presales, StageSplit(i).delivery),
                            StageSplit(i).total)),
                  QMul(RoundingSlack, StageSplit(i).total))
            /\ Le(Zero, StageSplit(i).presales)
            /\ Le(StageSplit(i).presales, StageSplit(i).total)

\* a stage with presales hours whose two parts do not add up to its total
C1_Witness ==
    /\ Estimated
    /\ \E i \in BaseStages :
        /\ Gt(StageSplit(i).presales, Zero)
        /\ Gt(StageSplit(i).delivery, Zero)
        /\ FAdd(StageSplit(i).presales, StageSplit(i).delivery) # StageSplit(i).total

\* the adjusted base of the claim: baseline x size x delivery x maturity, the
\* delivery multiplier read from the product's table, else the global table,
\* else 1.0
ClaimedDeliveryMultiplier ==
    LET by_product == config.product_delivery_type_multipliers
        own == DGet(by_product, inputs.product, <<>>)
    IN  IF DHas(own, inputs.delivery_type) THEN DGet(own, inputs.delivery_type, One)
        ELSE IF DHas(config.delivery_type_multipliers, inputs.delivery_type)
        THEN DGet(config.delivery_type_multipliers, inputs.delivery_type, One)
        ELSE One

ClaimedSizeMultiplier ==
    IF DHas(config.size_multipliers, inputs.size_band)
    THEN DGet(config.size_multipliers, inputs.size_band, One) ELSE One

ClaimedAdjustedBase ==
    QMul(QMul(QMul(config.baseline_hours, ClaimedSizeMultiplier),
              ClaimedDeliveryMultiplier),
         inputs.maturity_factor)

ConfiguredWeight(stage) ==
    LET IsStage(w) == w.stage = stage
        rows == Filter(config.stage_weights, [idx \in DOMAIN config.stage_weights |-> IsStage(config.stage_weights[idx])])
    IN  IF Len(rows) = 0 THEN Zero ELSE rows[Len(rows)].weight

ConfiguredWeightSum ==
    SumTo([i \in DOMAIN config.stage_weights |-> config.stage_weights[i].weight],
          Len(config.stage_weights))

DonorWeight == QAdd(ConfiguredWeight("Plan"), ConfiguredWeight("Configure"))

\* the uplift is redistributed: it is positive and there is donor weight
UpliftApplied == Gt(inputs.sprint0_uplift_pct, Zero) /\ Gt(DonorWeight, Zero)

(* C2, as stated: for weights summing to 1.0 within 0.001 the sum of the    *)
(* base stage hours is within 0.01 of baseline x size multiplier x          *)
(* effective delivery multiplier x maturity factor.                         *)
C2_SumWithinOneHundredth ==
    Estimated =>
        Le(QAbs(QSub(Total(res.base_n2s.stage_hours), ClaimedAdjustedBase)), Tol01)

(* C2, amended: the sum of the base stage hours is the adjusted base        *)
(* (baseline x size multiplier x effective delivery multiplier x maturity   *)
(* factor, the delivery multiplier product-specific, else global, else 1.0) *)
(* times the sum of the configured stage weights when no uplift is          *)
(* redistributed, and the adjusted base itself when one is.                 *)
C2_SumIsBaseTimesWeightSum ==
    Estimated =>
        Total(res.base_n2s.stage_hours)
            = IF UpliftApplied THEN ClaimedAdjustedBase
              ELSE QMul(ClaimedAdjustedBase, ConfiguredWeightSum)

\* accepted weights that do not sum to 1.0, estimated for a product with its
\* own delivery multiplier
C2_Witness ==
    /\ Estimated
    /\ ConfiguredWeightSum # One
    /\ DHas(config.product_delivery_type_multipliers, inputs.product)
    /\ Gt(QAbs(QSub(Total(res.base_n2s.stage_hours), ClaimedAdjustedBase)), Tol01)

\* Degree Works was estimated: the two stage figures of its StageHours
DegreeWorksEstimated ==
    /\ Estimated
    /\ res.degreeworks_hours # None
    /\ get_package(config, "Degree Works") # <<>>

DWSetupHours == DGet(res.degreeworks_hours[1].stage_hours, SetupStage, Zero)
DWPVEHours == DGet(res.degreeworks_hours[1].stage_hours, PVEStage, Zero)

\* the PVE hours of the same inputs with the cap switched off
DWUncappedPVEHours ==
    DGet(calculate_degreeworks(config, rate_cache, mix_cache,
                               [inputs EXCEPT !.degreeworks_cap_enabled = FALSE])
            [1].stage_hours,
         PVEStage, Zero)

\* the cap of the claims: the override when one is provided, else the cap
\* of the size band (None when the band has none)
ClaimedCap ==
    IF inputs.degreeworks_cap_hours # None THEN inputs.degreeworks_cap_hours
    ELSE DGet(DGet(config.addon_caps, "Degree Works", <<>>), inputs.size_band, None)

CapInForce ==
    DegreeWorksEstimated /\ inputs.degreeworks_cap_enabled /\ ClaimedCap # None

(* C3, as stated: with capping enabled and a cap value, the PVE hours are   *)
(* exactly 0 and the total is the setup hours if cap < setup; the PVE hours *)
(* are unchanged if cap >= setup + uncapped PVE hours; otherwise the PVE    *)
(* hours are exactly cap - setup.  For every cap the inputs can carry.      *)
C3_CapCases ==
    CapInForce =>
        IF Lt(ClaimedCap, DWSetupHours)
        THEN /\ DWPVEHours = Zero
             /\ Total(res.degreeworks_hours[1].stage_hours) = DWSetupHours
        ELSE IF Ge(ClaimedCap, QAdd(DWSetupHours, DWUncappedPVEHours))
        THEN DWPVEHours = DWUncappedPVEHours
        ELSE DWPVEHours = QSub(ClaimedCap, DWSetupHours)

(* C4, as stated: the cap calculate_degreeworks applies is the override     *)
(* degreeworks_cap_hours whenever it is provided, for every provided value, *)
(* and the size band's default only when none is; with the cap enabled and  *)
(* setup <= cap the total Degree Works hours never exceed the cap.          *)
C4_CapIsOverrideWhenProvided ==
    DegreeWorksEstimated =>
        /\ degreeworks_cap_value(config, inputs) = ClaimedCap
        /\ (CapInForce /\ Le(DWSetupHours, ClaimedCap)) =>
                Le(Total(res.degreeworks_hours[1].stage_hours), ClaimedCap)

\* the stage hours of an add-on whose include flag is set
IncludedHours(flag, stage_hours) ==
    IF flag THEN Total(stage_hours[1].stage_hours) ELSE Zero

ClaimedTotalHours ==
    QAdd(QAdd(QAdd(Total(res.base_n2s.stage_hours),
                   IncludedHours(inputs.include_integrations, res.integrations_hours)),
              IncludedHours(inputs.include_reports, res.reports_hours)),
         IncludedHours(inputs.include_degreeworks, res.degreeworks_hours))

(* C5, as stated: total_hours is the sum of the base stage hours plus the   *)
(* stage hours of every add-on whose include flag is set, and total_hours   *)
(* is total_presales_hours + total_delivery_hours.                          *)
C5_TotalsReconcile ==
    Estimated =>
        /\ res.total_hours = ClaimedTotalHours
        /\ res.total_hours = QAdd(res.total_presales_hours, res.total_delivery_hours)

\* Summarised is the state after a get_package_summaries(results) call
Summarised == summaries # None
Summary(package) == DGet(summaries[1], package, <<>>)
ListOf(optional) == IF optional = None THEN <<>> ELSE optional[1]
RoleTotalHours(role_hours) ==
    FSum([i \in DOMAIN role_hours |-> role_hours[i].total_hours])

\* the Optional StageHours and RoleHours list of an add-on package
AddOnPackages == {"Integrations", "Reports", "Degree Works"}
AddOnStageHours(package) ==
    CASE package = "Integrations" -> res.integrations_hours
      [] package = "Reports" -> res.reports_hours
      [] OTHER -> res.degreeworks_hours
AddOnRoleHours(package) ==
    CASE package = "Integrations" -> ListOf(res.integrations_role_hours)
      [] package = "Reports" -> ListOf(res.reports_role_hours)
      [] OTHER -> ListOf(res.degreeworks_role_hours)

(* C6, as stated: for every package the hours and the cost reported by      *)
(* get_package_summaries are the sums of total_hours and of total_cost over *)
(* that package's RoleHours list in the results.                            *)
C6_SummaryIsRoleHoursSum ==
    Summarised =>
        /\ Summary("Base N2S").hours = RoleTotalHours(res.base_role_hours)
        /\ Summary("Base N2S").cost = TotalCost(res.base_role_hours)
        /\ \A package \in AddOnPackages :
            /\ Summary(package).hours = RoleTotalHours(AddOnRoleHours(package))
            /\ Summary(package).cost = TotalCost(AddOnRoleHours(package))

(* C6, amended: the cost reported for every package is the sum of           *)
(* total_cost over its RoleHours list; the hours reported for Base N2S are  *)
(* the sum of its stage hours (presales included), the hours of an add-on   *)
(* with a non-empty RoleHours list are the sum of its stage hours, and an   *)
(* add-on that is not included reports 0 hours.                             *)
C6_SummaryIsStageHoursAndRoleCost ==
    Summarised =>
        /\ Summary("Base N2S").hours = Total(res.base_n2s.stage_hours)
        /\ Summary("Base N2S").cost = TotalCost(res.base_role_hours)
        /\ \A package \in AddOnPackages :
            /\ Summary(package).cost = TotalCost(AddOnRoleHours(package))
            /\ Len(AddOnRoleHours(package)) > 0 =>
                    Summary(package).hours
                        = Total(AddOnStageHours(package)[1].stage_hours)
            /\ AddOnStageHours(package) = None => Summary(package).hours = Zero

\* a summary whose base hours include presales hours no RoleHours row has,
\* and an add-on some of whose roles are disabled for the product
C6_Witness ==
    /\ Summarised
    /\ Gt(Summary("Base N2S").hours, RoleTotalHours(res.base_role_hours))
    /\ \E package \in AddOnPackages :
        /\ Len(AddOnRoleHours(package)) > 0
        /\ Gt(Summary(package).hours, RoleTotalHours(AddOnRoleHours(package)))

\* Accepted is the state after EstimationInputs(**kw) returned an object
Accepted == input_status = "ok"

MixSum(simple, standard, complex) == QAdd(QAdd(simple, standard), complex)

MixOk(simple, standard, complex) ==
    Le(QAbs(QSub(MixSum(simple, standard, complex), One)), Mil(1))

(* C7, as stated: every EstimationInputs that construction accepts has each *)
(* of its three tier-mix triples summing to 1.0 within 0.001, whichever of  *)
(* the fields were passed and whichever were left at their defaults.        *)
C7_AcceptedMixesSumToOne ==
    Accepted =>
        /\ MixOk(inputs.integrations_simple_pct, inputs.integrations_standard_pct,
                 inputs.integrations_complex_pct)
        /\ MixOk(inputs.reports_simple_pct, inputs.reports_standard_pct,
                 inputs.reports_complex_pct)
        /\ MixOk(inputs.degreeworks_simple_pct, inputs.degreeworks_standard_pct,
                 inputs.degreeworks_complex_pct)

\* abs(total - 1.0) > tol, in exact arithmetic
Off(total, tol) == Gt(QAbs(QSub(total, One)), tol)

\* a percentage table of the workbook is off 1.0 by more than its hard
\* tolerance: the stage weights, a stage's role mix, a delivery mix or an
\* add-on tier's role distribution
TableSumsBroken(wb) ==
    \/ Off(FSum([i \in DOMAIN wb.stage_weights |-> wb.stage_weights[i].weight]),
           Mil(1))
    \/ \E i \in DOMAIN wb.role_mix :
        Off(role_mix_total(wb, wb.role_mix[i].stage), Pct(5))
    \/ \E i \in DOMAIN wb.delivery_mix :
        Off(MixSum(wb.delivery_mix[i].onshore_pct, wb.delivery_mix[i].offshore_pct,
                   wb.delivery_mix[i].partner_pct), Mil(1))
    \/ \E i \in DOMAIN wb.addon_packages :
        \E j \in DOMAIN wb.addon_packages[i].tiers :
            Off(FSum(DValues(wb.addon_packages[i].tiers[j].role_distribution)),
                Pct(1))

(* C8, as stated: for a configuration in which a percentage table violates  *)
(* its sum-to-1.0 invariant beyond the hard tolerance, no estimate() result *)
(* is produced.                                                             *)
C8_BrokenTablesAbort ==
    (workbook # "" /\ TableSumsBroken(Workbook(workbook))) => ~Estimated

\* the base stage hours of the same inputs at uplift 0
BaseAtZeroUplift ==
    estimate_base_n2s(config, [inputs EXCEPT !.sprint0_uplift_pct = Zero]).stage_hours

Hours(stage) == DGet(res.base_n2s.stage_hours, stage, Zero)
HoursAtZeroUplift(stage) == DGet(BaseAtZeroUplift, stage, Zero)

(* C9: for an uplift in [0, 0.05] and stage weights summing to 1.0, the     *)
(* effective weights used for the allocation sum to 1.0 within 0.001, and   *)
(* the total of the base stage hours is the same as with uplift 0.          *)
C9_UpliftKeepsTotal ==
    (Estimated /\ ConfiguredWeightSum = One) =>
        /\ ~Off(Total(uplifted_weights(config, inputs)), Mil(1))
        /\ Total(res.base_n2s.stage_hours) = Total(BaseAtZeroUplift)

\* an uplift larger than the donors' combined weight was redistributed
C9_Witness ==
    /\ Estimated
    /\ ConfiguredWeightSum = One
    /\ UpliftApplied
    /\ Lt(DonorWeight, inputs.sprint0_uplift_pct)
    /\ Gt(Hours("Sprint 0"), HoursAtZeroUplift("Sprint 0"))

UpliftHours == QMul(ClaimedAdjustedBase, inputs.sprint0_uplift_pct)

\* the hours a donor gives up when the uplift is shared out by weight
DonorShare(stage) ==
    QMul(UpliftHours, QDiv(ConfiguredWeight(stage), DonorWeight))

StageNames ==
    {res.base_n2s.stage_hours[i][1] : i \in DOMAIN res.base_n2s.stage_hours}
        \cup {BaseAtZeroUplift[i][1] : i \in DOMAIN BaseAtZeroUplift}

\* Sprint 0 gains the uplift hours, Plan and Configure give them up in
\* proportion to their weights, every other stage keeps its hours
UpliftMovesHours ==
    /\ Gt(Hours("Sprint 0"), HoursAtZeroUplift("Sprint 0"))
    /\ Hours("Sprint 0") = QAdd(HoursAtZeroUplift("Sprint 0"), UpliftHours)
    /\ Lt(QAdd(Hours("Plan"), Hours("Configure")),
          QAdd(HoursAtZeroUplift("Plan"), HoursAtZeroUplift("Configure")))
    /\ Hours("Plan") = QSub(HoursAtZeroUplift("Plan"), DonorShare("Plan"))
    /\ Hours("Configure")
            = QSub(HoursAtZeroUplift("Configure"), DonorShare("Configure"))
    /\ \A stage \in StageNames \ {"Sprint 0", "Plan", "Configure"} :
            Hours(stage) = HoursAtZeroUplift(stage)

(* C10, as stated: for any valid stage weights and any applied uplift,      *)
(* compared with uplift 0 the Sprint 0 hours strictly increase and the      *)
(* Plan + Configure hours strictly decrease by adjusted_base x uplift, each *)
(* donor giving up a share proportional to its weight, and no other stage's *)
(* hours change.                                                            *)
C10_UpliftMovesHours ==
    (Estimated /\ UpliftApplied) => UpliftMovesHours

(* C10, amended: the same, for stage weights that sum to exactly 1.0 and an *)
(* applied uplift that does not exceed the combined Plan + Configure        *)
(* weight.                                                                  *)
C10_UpliftMovesHoursWithinDonors ==
    (/\ Estimated
     /\ UpliftApplied
     /\ ConfiguredWeightSum = One
     /\ Le(inputs.sprint0_uplift_pct, DonorWeight)) => UpliftMovesHours

\* an uplift within the donors' weight was taken from two donors of
\* different weights
C10_Witness ==
    /\ Estimated
    /\ UpliftApplied
    /\ ConfiguredWeightSum = One
    /\ Le(inputs.sprint0_uplift_pct, DonorWeight)
    /\ Gt(ConfiguredWeight("Configure"), ConfiguredWeight("Plan"))
    /\ Gt(ConfiguredWeight("Plan"), Zero)
    /\ Lt(Hours("Plan"), HoursAtZeroUplift("Plan"))

\* the size bands of the size multiplier table
SizeBands == {config.size_multipliers[i][1] : i \in DOMAIN config.size_multipliers}

\* the Degree Works stage hours of the same inputs at another size band
DWStageHoursAtSize(band) ==
    calculate_degreeworks(config, rate_cache, mix_cache,
                          [inputs EXCEPT !.size_band = band])[1].stage_hours

\* the unit hours of the Setup tier of the Degree Works package
SetupUnitHours ==
    LET tiers == get_package(config, "Degree Works")[1].tiers
        IsSetup(tier) == tier.name = "Setup"
        setup == Filter(tiers, [idx \in DOMAIN tiers |-> IsSetup(tiers[idx])])
    IN  setup[1].unit_hours

(* C11, as stated: for inputs that differ only in size_band,                *)
(* calculate_degreeworks returns the same PVE hours, and the Setup hours    *)
(* (when Setup is included) are the Setup unit hours times the size         *)
(* multiplier of the size band.                                             *)
C11_SizeScalesSetupOnly ==
    DegreeWorksEstimated =>
        /\ \A band \in SizeBands :
                DGet(DWStageHoursAtSize(band), PVEStage, Zero) = DWPVEHours
        /\ inputs.degreeworks_include_setup =>
                DWSetupHours = QMul(SetupUnitHours, ClaimedSizeMultiplier)

\* the PVE count of the claim: the calculator's formula, or the direct count
ClaimedPVECount ==
    IF inputs.degreeworks_use_pve_calculator
    THEN QMul(QAdd(Num(inputs.degreeworks_majors),
                   QMul(<<1, 2>>, Num(inputs.degreeworks_minors
                                      + inputs.degreeworks_certificates
                                      + inputs.degreeworks_concentrations))),
              Num(inputs.degreeworks_catalog_years))
    ELSE Num(inputs.degreeworks_pve_count)

\* the acceptance inputs: 60 majors, 40 minors, 10 certificates and 15
\* concentrations over one catalog year, everything else at its default
AcceptanceInputs(band) ==
    [Defaults EXCEPT !.include_degreeworks = TRUE, !.degreeworks_majors = 60,
                     !.degreeworks_minors = 40, !.degreeworks_certificates = 10,
                     !.degreeworks_concentrations = 15, !.size_band = band]

(* C12, as stated: the PVE count is (majors + 0.5 x (minors + certificates  *)
(* + concentrations)) x catalog_years with the calculator on and the direct *)
(* count otherwise; for the acceptance inputs estimate() yields a PVE count *)
(* of 92.5, 3996 PVE hours and a Degree Works total of 4296 hours for       *)
(* Medium and 4371 hours for Large.                                         *)
C12_AcceptanceScenario ==
    DegreeWorksEstimated =>
        /\ pve_count_of(inputs) = ClaimedPVECount
        /\ \A band \in {"Medium", "Large"} :
            inputs = AcceptanceInputs(band) =>
                /\ pve_count_of(inputs) = Q(185, 2)
                /\ DWPVEHours = Num(3996)
                /\ Total(res.degreeworks_hours[1].stage_hours)
                        = IF band = "Medium" THEN Num(4296) ELSE Num(4371)

\* the packages priced by _calculate_package, their counts and tier mixes
TieredPackages == {"Integrations", "Reports"}
PackageCount(package) ==
    IF package = "Integrations" THEN inputs.integrations_count
    ELSE inputs.reports_count
PackageMix(package, tier) ==
    LET prefix == IF package = "Integrations" THEN "integrations" ELSE "reports"
    IN  CASE tier = "Simple" -> inputs[prefix \o "_simple_pct"]
          [] tier = "Standard" -> inputs[prefix \o "_standard_pct"]
          [] tier = "Complex" -> inputs[prefix \o "_complex_pct"]
          [] OTHER -> Zero
PackageTiers(package) == get_package(config, package)[1].tiers
PackageIncluded(package) ==
    Estimated /\ AddOnStageHours(package) # None
        /\ get_package(config, package) # <<>>

\* count x mix x unit_hours of one tier
ClaimedTierHours(package, tier) ==
    QMul(QMul(Num(PackageCount(package)), PackageMix(package, tier.name)),
         tier.unit_hours)

\* count x the sum over the tiers of mix x unit_hours
ClaimedPackageHours(package) ==
    SumTo([i \in DOMAIN PackageTiers(package) |->
                ClaimedTierHours(package, PackageTiers(package)[i])],
          Len(PackageTiers(package)))

\* the same sum, each tier weighted by the sum of its role distribution
DistributedPackageHours(package) ==
    SumTo([i \in DOMAIN PackageTiers(package) |->
                QMul(ClaimedTierHours(package, PackageTiers(package)[i]),
                     SumTo(DValues(PackageTiers(package)[i].role_distribution),
                           Len(PackageTiers(package)[i].role_distribution)))],
          Len(PackageTiers(package)))

DistributionsSumToOne(package) ==
    \A i \in DOMAIN PackageTiers(package) :
        SumTo(DValues(PackageTiers(package)[i].role_distribution),
              Len(PackageTiers(package)[i].role_distribution)) = One

\* the StageHours of a package for the same inputs at another size band and
\* locale
PackageAt(package, band, locale) ==
    IF package = "Integrations"
    THEN calculate_integrations(config, rate_cache, mix_cache,
            [inputs EXCEPT !.size_band = band, !.locale = locale])[1]
    ELSE calculate_reports(config, rate_cache, mix_cache,
            [inputs EXCEPT !.size_band = band, !.locale = locale])[1]

Locales == {"US", "UK", "FR"}

DefaultMix(package) ==
    /\ PackageCount(package) = Defaults[IF package = "Integrations"
                                        THEN "integrations_count" ELSE "reports_count"]
    /\ \A tier \in {"Simple", "Standard", "Complex"} :
        PackageMix(package, tier)
            = IF package = "Integrations"
              THEN (CASE tier = "Simple" -> Pct(60) [] tier = "Standard" -> Pct(30)
                      [] OTHER -> Pct(10))
              ELSE (CASE tier = "Simple" -> Pct(50) [] tier = "Standard" -> Pct(35)
                      [] OTHER -> Pct(15))

DefaultPackageHours(package) ==
    IF package = "Integrations" THEN Num(3840) ELSE Num(2448)

\* all hours are delivery hours, and they are the same for every size band
\* and locale
AllDeliveryAtEverySize(package) ==
    LET stage_hours == AddOnStageHours(package)[1]
    IN  /\ stage_hours.delivery_hours = stage_hours.stage_hours
        /\ \A i \in DOMAIN stage_hours.presales_hours :
                stage_hours.presales_hours[i][2] = Zero
        /\ \A band \in SizeBands \cup {"Huge"}, locale \in Locales :
                PackageAt(package, band, locale) = stage_hours

(* C13, as stated: the stage hours of Integrations and of Reports are       *)
(* count x the sum over the tiers of mix x unit_hours, all of them delivery *)
(* hours with zero presales, the same for every size band and locale; the   *)
(* defaults give 3840 hours for Integrations and 2448 for Reports.          *)
C13_PackageHoursAreCountTimesMix ==
    \A package \in TieredPackages :
        PackageIncluded(package) =>
            /\ Total(AddOnStageHours(package)[1].stage_hours)
                    = ClaimedPackageHours(package)
            /\ AllDeliveryAtEverySize(package)
            /\ DefaultMix(package) =>
                    Total(AddOnStageHours(package)[1].stage_hours)
                        = DefaultPackageHours(package)

(* C13, amended: the stage hours are the sum over the tiers of count x mix  *)
(* x unit_hours x the sum of the tier's role distribution (the claimed      *)
(* figure when every role distribution sums to exactly 1.0, as for the      *)
(* defaults 3840 and 2448); the rest as stated.                             *)
C13_PackageHoursAreDistributedHours ==
    \A package \in TieredPackages :
        PackageIncluded(package) =>
            /\ Total(AddOnStageHours(package)[1].stage_hours)
                    = DistributedPackageHours(package)
            /\ AllDeliveryAtEverySize(package)
            /\ (DefaultMix(package) /\ DistributionsSumToOne(package)) =>
                    Total(AddOnStageHours(package)[1].stage_hours)
                        = DefaultPackageHours(package)

\* Integrations priced from a tier whose role distribution does not sum to 1.0
C13_Witness ==
    /\ PackageIncluded("Integrations")
    /\ ~DistributionsSumToOne("Integrations")
    /\ DefaultMix("Integrations")
    /\ Gt(Total(res.integrations_hours[1].stage_hours), Num(3840))

\* the hour fields of the rows of a RoleHours list
RowHours(rows) ==
    {[role |-> rows[i].role, stage |-> rows[i].stage,
      total_hours |-> rows[i].total_hours, onshore_hours |-> rows[i].onshore_hours,
      offshore_hours |-> rows[i].offshore_hours,
      partner_hours |-> rows[i].partner_hours] : i \in DOMAIN rows}

\* every hour figure of an EstimationResults
HourFigures(r) ==
    [base_n2s |-> r.base_n2s,
     base_rows |-> RowHours(r.base_role_hours),
     integrations_hours |-> r.integrations_hours,
     integrations_rows |-> RowHours(ListOf(r.integrations_role_hours)),
     reports_hours |-> r.reports_hours,
     reports_rows |-> RowHours(ListOf(r.reports_role_hours)),
     degreeworks_hours |-> r.degreeworks_hours,
     degreeworks_rows |-> RowHours(ListOf(r.degreeworks_role_hours)),
     total_hours |-> r.total_hours,
     total_presales_hours |-> r.total_presales_hours,
     total_delivery_hours |-> r.total_delivery_hours]

\* the results of estimate() for the same inputs in another locale
ResultsAtLocale(locale) ==
    estimate(config, rate_cache, mix_cache, [inputs EXCEPT !.locale = locale])

(* C14: for inputs that differ only in locale, estimate() returns the same  *)
(* hour figures everywhere: base stage, presales and delivery hours, the    *)
(* hour fields of every base and add-on RoleHours row, the add-on stage     *)
(* hours and the total hours.                                               *)
C14_LocaleKeepsHours ==
    Estimated =>
        \A locale \in Locales :
            HourFigures(ResultsAtLocale(locale)) = HourFigures(res)

\* an estimate with add-on rows in a locale whose rates differ from the US
\* rates
C14_Witness ==
    /\ Estimated
    /\ inputs.locale = "UK"
    /\ Len(ListOf(res.integrations_role_hours)) > 0
    /\ res.total_cost # ResultsAtLocale("US").total_cost

BaseRows == res.base_role_hours
DeliveryHours(stage) == DGet(res.base_n2s.delivery_hours, stage, Zero)
PresalesHours(stage) == DGet(res.base_n2s.presales_hours, stage, Zero)

\* the hours a role is given out of the delivery hours of a stage
DeliveryShare(stage, role) ==
    QMul(QMul(DeliveryHours(stage), get_role_percentage(config, stage, role)),
         get_product_multiplier(config, inputs.product, role))

(* C15: presales hours are never role-expanded or priced: every base        *)
(* RoleHours row holds its role's share of the delivery hours of its stage, *)
(* a stage with delivery hours <= 0 has no rows, and total_presales_cost is *)
(* 0, so that total_cost is total_delivery_cost.                            *)
C15_PresalesNotPriced ==
    Estimated =>
        /\ \A i \in DOMAIN BaseRows :
            /\ BaseRows[i].total_hours
                    = DeliveryShare(BaseRows[i].stage, BaseRows[i].role)
            /\ Gt(DeliveryHours(BaseRows[i].stage), Zero)
        /\ res.total_presales_cost = Zero
        /\ res.total_cost = res.total_delivery_cost

\* an estimate with a stage that has presales hours and rows, and a stage
\* without delivery hours
C15_Witness ==
    /\ Estimated
    /\ \E i \in DOMAIN BaseRows :
        /\ Gt(PresalesHours(BaseRows[i].stage), Zero)
        /\ Gt(BaseRows[i].total_cost, Zero)
    /\ \E j \in BaseStages :
        /\ Le(res.base_n2s.delivery_hours[j][2], Zero)
        /\ get_stage_roles(config, res.base_n2s.delivery_hours[j][1]) # <<>>
    /\ Gt(res.total_presales_hours, Zero)

\* every RoleHours row of the results, base and add-on
AllRows ==
    BaseRows \o ListOf(res.integrations_role_hours)
        \o ListOf(res.reports_role_hours) \o ListOf(res.degreeworks_role_hours)

\* the role has a ProductRoleToggle whose flag for the product is false
FlagIsFalse(role, product) ==
    \E i \in DOMAIN config.product_role_map :
        /\ config.product_role_map[i].role = role
        /\ CASE product = "Banner" -> ~config.product_role_map[i].banner_enabled
             [] product = "Colleague" -> ~config.product_role_map[i].colleague_enabled
             [] OTHER -> TRUE

(* C16: no RoleHours row, base or add-on, is emitted for a role whose       *)
(* ProductRoleToggle flag for the product is false, and every emitted row   *)
(* has total_hours > 0.                                                     *)
C16_NoRowsForDisabledRoles ==
    Estimated =>
        \A i \in DOMAIN AllRows :
            /\ ~FlagIsFalse(AllRows[i].role, inputs.product)
            /\ Gt(AllRows[i].total_hours, Zero)

\* Degree Works estimated for Colleague, for which the DegreeWorks Scribe is
\* disabled: the other roles of the package have rows
C16_Witness ==
    /\ DegreeWorksEstimated
    /\ inputs.product = "Colleague"
    /\ FlagIsFalse(DWS, "Colleague")
    /\ Gt(DWSetupHours, Zero)
    /\ Len(ListOf(res.degreeworks_role_hours)) > 0
    /\ \E i \in DOMAIN BaseRows : BaseRows[i].stage = "Configure"
    /\ FlagIsFalse(TA, "Colleague")

\* the configuration holds no ProductRoleToggle records
NoToggles == config.product_role_map = <<>>

\* the role-mix rows that give a role a positive share of positive delivery
\* hours
AllocatedMixRows ==
    {i \in DOMAIN config.role_mix :
        /\ Gt(config.role_mix[i].pct, Zero)
        /\ Gt(DeliveryHours(config.role_mix[i].stage), Zero)}

(* C17, as stated: without ProductRoleToggle records every role is enabled  *)
(* with multiplier 1.0: every role given positive hours by a stage's role   *)
(* mix or by an add-on tier's role distribution has a RoleHours row with    *)
(* those hours, so that no hours of an add-on are dropped.                  *)
C17_NoTogglesKeepEveryRole ==
    (Estimated /\ NoToggles) =>
        /\ \A i \in AllocatedMixRows :
            \E j \in DOMAIN BaseRows :
                /\ BaseRows[j].role = config.role_mix[i].role
                /\ BaseRows[j].stage = config.role_mix[i].stage
                /\ BaseRows[j].total_hours
                        = QMul(DeliveryHours(config.role_mix[i].stage),
                               config.role_mix[i].pct)
        /\ \A package \in AddOnPackages :
            AddOnStageHours(package) # None =>
                RoleTotalHours(AddOnRoleHours(package))
                    = Total(AddOnStageHours(package)[1].stage_hours)

\* the rate cards the configuration offers for a role in a locale: the cards
\* of that role and locale, else the US cards of the role, else the fixed
\* rates
HardcodedRates ==
    [onshore |-> float(Num(100)), offshore |-> float(Num(50)),
     partner |-> float(Num(75))]
CardsOf(role, locale) ==
    {[onshore |-> config.rates[i].onshore, offshore |-> config.rates[i].offshore,
      partner |-> config.rates[i].partner] :
        i \in {j \in DOMAIN config.rates :
                /\ config.rates[j].role = role
                /\ config.rates[j].locale = locale}}
ClaimedRates(role, locale) ==
    IF CardsOf(role, locale) # {} THEN CardsOf(role, locale)
    ELSE IF CardsOf(role, "US") # {} THEN CardsOf(role, "US")
    ELSE {HardcodedRates}

\* the row is priced with the rate card
PricedWith(row, card) ==
    /\ row.onshore_cost = FMul(row.onshore_hours, card.onshore)
    /\ row.offshore_cost = FMul(row.offshore_hours, card.offshore)
    /\ row.partner_cost = FMul(row.partner_hours, card.partner)

(* C18: every RoleHours row of an estimate is priced, for the role of the   *)
(* row and the locale of the inputs, with the rate card of exactly that     *)
(* role and locale if the configuration has one, otherwise with the role's  *)
(* US rate card if it has one, otherwise with the rates 100 / 50 / 75.      *)
C18_RatePrecedence ==
    Estimated =>
        \A i \in DOMAIN AllRows :
            \E card \in ClaimedRates(AllRows[i].role, inputs.locale) :
                PricedWith(AllRows[i], card)

\* an estimate in the locale UK from rate cards that hold the UK card of the
\* Project Manager, only the US card of the Functional Consultant and no card
\* of the QA Lead
C18_Witness ==
    /\ Estimated
    /\ inputs.locale = "UK"
    /\ CardsOf(PM, "UK") # {}
    /\ CardsOf(FC, "UK") = {} /\ CardsOf(FC, "US") # {}
    /\ CardsOf(QA, "UK") = {} /\ CardsOf(QA, "US") = {}
    /\ \A role \in {PM, FC, QA} :
        \E i \in DOMAIN BaseRows :
            /\ BaseRows[i].role = role
            /\ Gt(BaseRows[i].onshore_hours, Zero)
    /\ CardsOf(PM, "UK") # CardsOf(PM, "US")

\* the delivery splits the configuration offers for a role: the rows of the
\* role, else the global rows, else the fixed split
HardcodedSplit ==
    [onshore_pct |-> float(Pct(70)), offshore_pct |-> float(Pct(20)),
     partner_pct |-> float(Pct(10))]
SplitsOf(role) ==
    {[onshore_pct |-> config.delivery_mix[i].onshore_pct,
      offshore_pct |-> config.delivery_mix[i].offshore_pct,
      partner_pct |-> config.delivery_mix[i].partner_pct] :
        i \in {j \in DOMAIN config.delivery_mix :
                config.delivery_mix[j].role = role}}
ClaimedSplits(role) ==
    IF SplitsOf(role) # {} THEN SplitsOf(role)
    ELSE IF SplitsOf(NoRole) # {} THEN SplitsOf(NoRole)
    ELSE {HardcodedSplit}

\* the hours of the row are split by the percentages
SplitWith(row, split) ==
    /\ row.onshore_hours = FMul(row.total_hours, split.onshore_pct)
    /\ row.offshore_hours = FMul(row.total_hours, split.offshore_pct)
    /\ row.partner_hours = FMul(row.total_hours, split.partner_pct)

(* C19: the channel hours of every RoleHours row are its total_hours times  *)
(* the percentages of the role's own DeliveryMix if the configuration has   *)
(* one, otherwise of the global (role = None) DeliveryMix if it has one,    *)
(* otherwise 70 / 20 / 10 per cent.                                         *)
C19_DeliverySplitPrecedence ==
    Estimated =>
        \A i \in DOMAIN AllRows :
            \E split \in ClaimedSplits(AllRows[i].role) :
                SplitWith(AllRows[i], split)

\* an estimate from a delivery mix without a global row: the Project Manager
\* has a split of its own, the Functional Consultant has none
C19_Witness ==
    /\ Estimated
    /\ SplitsOf(NoRole) = {}
    /\ SplitsOf(PM) # {} /\ SplitsOf(PM) # {HardcodedSplit}
    /\ SplitsOf(FC) = {}
    /\ \A role \in {PM, FC} :
        \E i \in DOMAIN BaseRows :
            /\ BaseRows[i].role = role
            /\ Gt(BaseRows[i].total_hours, Zero)

\* the pricing calls made since the last reset
LastReset ==
    LET resets == {0} \cup {i \in DOMAIN pricing_log : pricing_log[i].op = "reset"}
    IN  CHOOSE i \in resets : \A j \in resets : j <= i
RateRowsInForce ==
    Flatten([i \in DOMAIN pricing_log |->
                IF i > LastReset THEN pricing_log[i].rates ELSE <<>>])
RoleMixRowsInForce ==
    Flatten([i \in DOMAIN pricing_log |->
                IF i > LastReset THEN pricing_log[i].role_overrides ELSE <<>>])
GlobalMixRowsInForce ==
    Flatten([i \in DOMAIN pricing_log |->
                IF i > LastReset THEN pricing_log[i].global_mix ELSE <<>>])

\* the last row of a list that a set of its positions points at, if any
LastAt(rows, positions) ==
    IF positions = {} THEN None
    ELSE Some(rows[CHOOSE i \in positions : \A j \in positions : j <= i])

\* the override in force for a rate key, a role's split and the global split
RateInForce(role, locale) ==
    LastAt(RateRowsInForce,
           {i \in DOMAIN RateRowsInForce :
                /\ RateRowsInForce[i].role = role
                /\ RateRowsInForce[i].locale = locale})
RoleMixInForce(role) ==
    LastAt(RoleMixRowsInForce,
           {i \in DOMAIN RoleMixRowsInForce : RoleMixRowsInForce[i].role = role})
GlobalMixInForce == LastAt(GlobalMixRowsInForce, DOMAIN GlobalMixRowsInForce)

CardOf(rate) ==
    [onshore |-> float(rate.onshore), offshore |-> float(rate.offshore),
     partner |-> float(rate.partner)]
SplitOf(mix) ==
    [onshore_pct |-> float(mix.onshore_pct),
     offshore_pct |-> float(mix.offshore_pct),
     partner_pct |-> float(mix.partner_pct)]

\* the results are those of an estimate() made after the last pricing call
EstimatedSince ==
    /\ Estimated
    /\ results = Some(estimate(config, rate_cache, mix_cache, inputs))

\* a row is priced and split with the overrides in force for it
RowUsesOverrides(row) ==
    /\ RateInForce(row.role, inputs.locale) # None =>
        PricedWith(row, CardOf(RateInForce(row.role, inputs.locale)[1]))
    /\ RoleMixInForce(row.role) # None =>
        SplitWith(row, SplitOf(RoleMixInForce(row.role)[1]))
    /\ (/\ RoleMixInForce(row.role) = None
        /\ SplitsOf(row.role) = {}
        /\ GlobalMixInForce # None) =>
            SplitWith(row, SplitOf(GlobalMixInForce[1]))

\* every lookup answers as on an engine just constructed for the
\* configuration
PricedRoles == {PM, SA, FC, QA, IE, TA, IL, RC, EE, DWS}
LookupsAsConstructed ==
    /\ \A role \in PricedRoles, locale \in Locales :
        get_rates(rate_cache, role, locale)
            = get_rates(build_rate_cache(config), role, locale)
    /\ \A role \in PricedRoles :
        get_delivery_split(mix_cache, role)
            = get_delivery_split(build_delivery_mix_cache(config), role)

(* C20: after any sequence of apply_rate_overrides and                      *)
(* apply_delivery_mix_overrides calls, an estimate() prices every row with  *)
(* the rate override in force for its role and the locale and splits it     *)
(* with the delivery-mix override in force for its role (or the global      *)
(* one); the configuration stays the one that was loaded; and when the      *)
(* last call is reset_pricing_overrides, every rate and delivery-mix lookup *)
(* answers as on an engine just constructed for the configuration.          *)
C20_OverridesUsedUntilReset ==
    load_status = "ok" =>
        /\ config = load_configuration(Workbook(workbook)).value
        /\ EstimatedSince =>
            \A i \in DOMAIN AllRows : RowUsesOverrides(AllRows[i])
        /\ (pricing_log # <<>> /\ LastReset = Len(pricing_log)) =>
            LookupsAsConstructed

\* an estimate in the locale FR after a global delivery-mix override and a
\* rate override for the QA Engineer in FR: the QA row is priced with the
\* override, the Functional Consultant's hours are split 60 / 30 / 10
C20_Witness ==
    /\ EstimatedSince
    /\ Len(pricing_log) = 2
    /\ pricing_log[1].op = "mix" /\ pricing_log[2].op = "rates"
    /\ inputs.locale = "FR"
    /\ RateInForce(QA, "FR") # None
    /\ GlobalMixInForce # None
    /\ SplitOf(GlobalMixInForce[1]) \notin SplitsOf(NoRole)
    /\ \E i \in DOMAIN BaseRows :
        /\ BaseRows[i].role = QA
        /\ BaseRows[i].onshore_cost
            = FMul(BaseRows[i].onshore_hours, float(Num(5)))
    /\ \E i \in DOMAIN BaseRows :
        /\ BaseRows[i].role = FC
        /\ BaseRows[i].onshore_hours
            = FMul(BaseRows[i].total_hours, float(Pct(60)))

\* the last summary or breakdown call and what it returned
DerivedBy(op) == derived # None /\ derived[1].op = op
DerivedRows == derived[1].value
RolesOf(rows) == {rows[i].role : i \in DOMAIN rows}

(* C21, as stated: the rows get_role_summary returns add up, in total_hours *)
(* and in total_cost, to the rows of the base list and of every add-on list *)
(* of the results (Integrations, Reports and Degree Works), with one row    *)
(* per distinct role.                                                       *)
C21_RoleSummaryCoversAllPackages ==
    DerivedBy("get_role_summary") =>
        /\ RoleTotalHours(DerivedRows) = RoleTotalHours(AllRows)
        /\ TotalCost(DerivedRows) = TotalCost(AllRows)
        /\ RolesOf(DerivedRows) = RolesOf(AllRows)
        /\ Cardinality(RolesOf(DerivedRows)) = Len(DerivedRows)

\* each row costs at least as much as the next one
SortedByCost(rows) ==
    \A i \in DOMAIN rows :
        i < Len(rows) => Ge(rows[i].total_cost, rows[i + 1].total_cost)

\* where a stage first appears among the base rows
FirstRowOf(stage) ==
    CHOOSE i \in DOMAIN BaseRows :
        /\ BaseRows[i].stage = stage
        /\ \A j \in DOMAIN BaseRows : BaseRows[j].stage = stage => i <= j

\* the stage rows come in the order the stages first appear in the base rows
InStageOrder(rows) ==
    /\ {rows[i].stage : i \in DOMAIN rows} = {BaseRows[i].stage : i \in DOMAIN BaseRows}
    /\ \A i \in DOMAIN rows :
        i < Len(rows) => FirstRowOf(rows[i].stage) < FirstRowOf(rows[i + 1].stage)

(* C22, as stated: get_role_summary and get_stage_summary both return rows  *)
(* sorted by total_cost descending.                                         *)
C22_SummariesSortedByCost ==
    (DerivedBy("get_role_summary") \/ DerivedBy("get_stage_summary")) =>
        SortedByCost(DerivedRows)

(* C22, amended: get_role_summary returns rows sorted by total_cost         *)
(* descending; get_stage_summary returns one row per stage in the order the *)
(* stages first appear in the base role hours, whatever the rows cost.      *)
C22_RoleSummarySortedStageSummaryInStageOrder ==
    /\ DerivedBy("get_role_summary") => SortedByCost(DerivedRows)
    /\ DerivedBy("get_stage_summary") => InStageOrder(DerivedRows)

\* a role summary of several rows whose costliest role is not the role of the
\* first row of the results
C22_Witness ==
    /\ DerivedBy("get_role_summary")
    /\ Len(DerivedRows) >= 3
    /\ DerivedRows[1].role # BaseRows[1].role
    /\ Gt(DerivedRows[1].total_cost, DerivedRows[2].total_cost)

\* the two rows carry the same hours, costs and blended rate
SamePricing(a, b) ==
    /\ a.total_hours = b.total_hours
    /\ a.onshore_hours = b.onshore_hours
    /\ a.offshore_hours = b.offshore_hours
    /\ a.partner_hours = b.partner_hours
    /\ a.onshore_cost = b.onshore_cost
    /\ a.offshore_cost = b.offshore_cost
    /\ a.partner_cost = b.partner_cost
    /\ a.total_cost = b.total_cost
    /\ a.blended_rate = b.blended_rate

\* the rows the add-on engine makes of h hours of a role are the rows the
\* pricing engine makes of the role in the stage
SameRows(addon_rows, base_rows) ==
    /\ Len(addon_rows) = Len(base_rows)
    /\ \A k \in DOMAIN addon_rows : SamePricing(addon_rows[k], base_rows[k])

\* the Role Mix rows of the stages with delivery hours in which delivery_hours
\* x role_pct is positive
PositiveShares ==
    {i \in DOMAIN config.role_mix :
        /\ Gt(DeliveryHours(config.role_mix[i].stage), Zero)
        /\ Gt(FMul(DeliveryHours(config.role_mix[i].stage),
                   get_role_percentage(config, config.role_mix[i].stage,
                                       config.role_mix[i].role)), Zero)}

\* the add-on rows for h = delivery_hours x role_pct of the role of a row
AddOnRowsOf(rm, package_name) ==
    create_role_hours(config, rate_cache, mix_cache,
        << <<rm.role, FMul(DeliveryHours(rm.stage),
                           get_role_percentage(config, rm.stage, rm.role))>> >>,
        package_name, inputs)

\* the base rows of the role of a row in its stage
BaseRowsOf(rm) ==
    stage_role_hours(config, rate_cache, mix_cache, rm.stage,
                     DeliveryHours(rm.stage), rm.role, inputs)

(* C23: for a role whose delivery_hours x role_pct in a stage is h > 0, the *)
(* add-on engine's _create_role_hours makes of h hours of the role a row    *)
(* with the same hours, channel hours, costs and blended rate as the base   *)
(* pricing makes for the role in that stage, and skips the role exactly     *)
(* when the base pricing skips it.                                          *)
C23_AddOnPricingIsBasePricing ==
    Estimated =>
        \A i \in PositiveShares :
            SameRows(AddOnRowsOf(config.role_mix[i], "Integrations"),
                     BaseRowsOf(config.role_mix[i]))

\* an estimate in which one role is priced by both and another is skipped by
\* both
C23_Witness ==
    /\ Estimated
    /\ \E i \in PositiveShares :
        /\ Len(BaseRowsOf(config.role_mix[i])) = 1
        /\ Len(AddOnRowsOf(config.role_mix[i], "Integrations")) = 1
    /\ \E i \in PositiveShares :
        /\ Len(BaseRowsOf(config.role_mix[i])) = 0
        /\ Len(AddOnRowsOf(config.role_mix[i], "Integrations")) = 0

\* the package of the last tier breakdown, if the last derivation was one
BrokenDown == derived # None /\ derived[1].op \in AddOnPackages
Breakdown == derived[1].value
BreakdownPackage == derived[1].op

\* whether the inputs ask for the package
PackageEnabled(package) ==
    CASE package = "Integrations" -> inputs.include_integrations
      [] package = "Reports" -> inputs.include_reports
      [] OTHER -> inputs.include_degreeworks

\* the total_hours of the breakdown, summed over its tiers
BreakdownHours(breakdown) ==
    FSum([i \in DOMAIN breakdown |-> breakdown[i][2].total_hours])

\* the stage_hours of the package in the results, summed (none: zero)
PackageStageHours(package) ==
    IF AddOnStageHours(package) = None THEN Zero
    ELSE Total(AddOnStageHours(package)[1].stage_hours)

\* the counts of the Degree Works tiers: 0 or 1 for Setup, pve_count x mix for
\* the PVE tiers
DegreeWorksCounts(breakdown) ==
    \A i \in DOMAIN breakdown :
        IF tier_kind(breakdown[i][1]) = "setup"
        THEN breakdown[i][2].count \in {Num(0), Num(1)}
        ELSE breakdown[i][2].count =
                FMul(pve_count_of(inputs), breakdown[i][2].mix_percentage)

(* C24, as stated: for a package the inputs enable, the total_hours of the  *)
(* tier breakdown summed over the tiers equal the sum of the package's      *)
(* stage_hours in the results; for Degree Works the Setup count is 0 or 1   *)
(* and the count of each PVE tier is pve_count x mix.                       *)
C24_TierBreakdownMirrorsCalculators ==
    (BrokenDown /\ PackageEnabled(BreakdownPackage)) =>
        /\ BreakdownHours(Breakdown) = PackageStageHours(BreakdownPackage)
        /\ BreakdownPackage = "Degree Works" => DegreeWorksCounts(Breakdown)

\* the configuration and the caches are those the estimator was constructed
\* with
AsConstructed ==
    /\ config = load_configuration(Workbook(workbook)).value
    /\ rate_cache = build_rate_cache(config)
    /\ mix_cache = build_delivery_mix_cache(config)

(* C25: estimate() leaves the configuration, the rate cache and the         *)
(* delivery-mix cache as the estimator was constructed with them, and its   *)
(* results are those of the inputs on that configuration and those caches,  *)
(* however many requests the estimator has estimated before: equal inputs   *)
(* give equal results.                                                      *)
C25_EstimateIsPure ==
    Estimated =>
        /\ AsConstructed
        /\ results = Some(estimate(config, rate_cache, mix_cache, inputs))

\* an estimate with a Sprint 0 uplift by an estimator that has estimated an
\* earlier request
C25_Witness ==
    /\ Estimated
    /\ earlier_estimates >= 1
    /\ Gt(inputs.sprint0_uplift_pct, Zero)
    /\ res.total_hours # Zero

\* how far the Stage Weight % column of the workbook is from summing to 1.0
StageWeightDeviation ==
    QAbs(FSub(FSum([i \in DOMAIN Workbook(workbook).stage_weights |->
                        float(Workbook(workbook).stage_weights[i].weight)]), One))

HasMessage(messages, message) ==
    \E i \in DOMAIN messages : messages[i] = message

Constructed == load_status # ""
StageWeightsRejected == load_status = "ValueError"
StageWeightsReported ==
    warnings # None /\ HasMessage(warnings[1], "Stage Weights Error")

(* C26, as stated: stage weights whose sum is off by more than 0.001 but by *)
(* no more than 0.05 are tolerated, and a hard error is raised only when    *)
(* the sum is off by more than 0.05.                                        *)
C26_StageWeightsTwoTier ==
    Constructed =>
        /\ Le(StageWeightDeviation, Tol05) => ~StageWeightsRejected
        /\ Gt(StageWeightDeviation, Tol05) => StageWeightsRejected

(* C26, amended: the stage weights have one tolerance.  A sum off by more   *)
(* than 0.001 is a hard error: the load raises ValueError, no configuration *)
(* exists and nothing is estimated.  A sum within 0.001 is accepted, and    *)
(* validate_all then reports no stage-weight error.                         *)
C26_StageWeightsOneTier ==
    Constructed =>
        /\ Gt(StageWeightDeviation, Tol001) =>
                StageWeightsRejected /\ config = None /\ results = None
        /\ Le(StageWeightDeviation, Tol001) =>
                ~StageWeightsRejected /\ ~StageWeightsReported

\* the estimator could not be constructed from stage weights that sum to 1.02
C26_Witness ==
    /\ StageWeightsRejected
    /\ Gt(StageWeightDeviation, Tol001)
    /\ Le(StageWeightDeviation, Tol05)

\* the activities of a stage, and those of them flagged as presales
ActivitiesOf(stage) ==
    LET OfStage(a) == a.stage = stage
    IN  SelectSeq(config.activities, OfStage)
PresalesActivitiesOf(stage) ==
    LET Flagged(a) == a.stage = stage /\ a.is_presales
    IN  SelectSeq(config.activities, Flagged)
ActivityWeight(activities) ==
    FSum([i \in DOMAIN activities |-> activities[i].weight])

\* the Stages rows of a stage
DefaultsOf(stage) ==
    LET OfStage(sp) == sp.stage = stage
    IN  SelectSeq(config.stages_presales, OfStage)

\* the presales ratio by the precedence: activities, stage default, 0
PresalesRatio(stage) ==
    IF Len(ActivitiesOf(stage)) > 0
    THEN FDiv(ActivityWeight(PresalesActivitiesOf(stage)),
              ActivityWeight(ActivitiesOf(stage)))
    ELSE IF Len(DefaultsOf(stage)) > 0 THEN DefaultsOf(stage)[1].default_pct
    ELSE Zero

RoleMixStages == {config.role_mix[i].stage : i \in DOMAIN config.role_mix}
RoleMixDeviation(stage) ==
    LET OfStage(rm) == rm.stage = stage
        rows == SelectSeq(config.role_mix, OfStage)
    IN  QAbs(FSub(FSum([i \in DOMAIN rows |-> rows[i].pct]), One))

Validated == warnings # None

(* C28: the list validate_all returns holds a 'Role Mix Error' exactly when *)
(* the role mix of some stage is off by more than 0.05, and the             *)
(* 'auto-normalized' warning of a stage exactly when the role mix of that   *)
(* stage is off by more than 0.01; a stage within 0.01 has no message.      *)
C28_RoleMixTwoTier ==
    Validated =>
        /\ HasMessage(warnings[1], "Role Mix Error")
            <=> \E stage \in RoleMixStages : Gt(RoleMixDeviation(stage), Tol05)
        /\ \A stage \in RoleMixStages :
            HasMessage(warnings[1], auto_normalized(stage))
                <=> Gt(RoleMixDeviation(stage), Tol01)

\* a validated configuration with a stage off by 0.03, warned about without
\* an error, and a stage that is not warned about
C28_Witness ==
    /\ Validated
    /\ ~HasMessage(warnings[1], "Role Mix Error")
    /\ \E stage \in RoleMixStages :
        /\ Gt(RoleMixDeviation(stage), Tol01)
        /\ HasMessage(warnings[1], auto_normalized(stage))
    /\ \E stage \in RoleMixStages :
        /\ Le(RoleMixDeviation(stage), Tol01)
        /\ ~HasMessage(warnings[1], auto_normalized(stage))

\* thresholds check_methodology_drift is called with: none at all, the role
\* mix tolerance, the default
DriftThresholds == {Zero, Tol01, DriftThreshold}

(* C29: for a configuration whose role mix is as it was when the validator  *)
(* was constructed, check_methodology_drift returns an empty list for every *)
(* threshold, 0 included, and the list validate_all returns holds no        *)
(* 'Methodology drift warning'.                                             *)
C29_NoDriftFromOneSnapshot ==
    load_status = "ok" =>
        /\ \A threshold \in DriftThresholds :
            check_methodology_drift(config, baseline_role_mix, threshold) = <<>>
        /\ Validated => ~HasMessage(warnings[1], "Methodology drift warning")

\* a validated configuration with a role mix to drift from
C29_Witness ==
    /\ Validated
    /\ load_status = "ok"
    /\ \E i \in DOMAIN baseline_role_mix : Gt(baseline_role_mix[i][2], DriftThreshold)
    /\ check_methodology_drift(config, baseline_role_mix, Zero) = <<>>

\* the Role Mix rows of a stage and the base rows of a stage
MixRowsOf(stage) ==
    LET OfStage(rm) == rm.stage = stage
    IN  SelectSeq(config.role_mix, OfStage)
BaseRowsOfStage(stage) ==
    LET OfStage(rh) == rh.stage = stage
    IN  SelectSeq(BaseRows, OfStage)

\* the product multiplier of a role, a role that is not enabled counting as 0
EnabledMultiplier(role) ==
    IF role \in get_enabled_roles(config, inputs.product)
    THEN get_product_multiplier(config, inputs.product, role)
    ELSE Zero

\* the sum over the Role Mix rows of a stage of pct x multiplier
ExpandedShare(stage) ==
    FSum([i \in DOMAIN MixRowsOf(stage) |->
            FMul(MixRowsOf(stage)[i].pct,
                 EnabledMultiplier(MixRowsOf(stage)[i].role))])

\* no stage has two Role Mix rows for the same role
OneRowPerRole ==
    \A i \in DOMAIN config.role_mix : \A j \in DOMAIN config.role_mix :
        (config.role_mix[i].stage = config.role_mix[j].stage
            /\ config.role_mix[i].role = config.role_mix[j].role) => i = j

(* C30, as stated: for every stage with positive delivery hours the         *)
(* total_hours of the stage's base rows sum to the delivery hours of the    *)
(* stage times the sum over the stage's Role Mix rows of pct x product      *)
(* multiplier, a role that is not enabled counting as 0.                    *)
C30_RoleExpansionConservesHours ==
    Estimated =>
        \A i \in BaseStages :
            Gt(StageSplit(i).delivery, Zero) =>
                RoleTotalHours(BaseRowsOfStage(res.base_n2s.stage_hours[i][1]))
                    = FMul(StageSplit(i).delivery,
                           ExpandedShare(res.base_n2s.stage_hours[i][1]))

=============================================================================
